---------------------------- MODULE Spec2Model ----------------------------
(***************************************************************************)
(* A model of neural_network_lyapunov: the feedback composition            *)
(* (feedback_system.py), the (leaky-)ReLU and hybrid-system mixed-integer  *)
(* encodings it is composed from, and the Lyapunov-derivative program.     *)
(*                                                                         *)
(* Numbers.  The code computes with float64 tensors; the model computes    *)
(* with integers in fixed point.  States x are integers.  Everything that  *)
(* has passed a leaky ReLU (network outputs, controls u, successor states, *)
(* Lyapunov values) is held in units of 1/SlopeDen, so that a negative     *)
(* slope of SlopeNum/SlopeDen is exact.  +infinity and -infinity are the   *)
(* sentinels PosInf and NegInf, which only ever meet min, max and          *)
(* comparisons, as in the code.                                            *)
(***************************************************************************)
EXTENDS Integers, Sequences, FiniteSets, TLC

VARIABLES
    sat,    \* one call of _add_input_saturation_constraint: arguments, result
    fbk,    \* a FeedbackSystem object, its calls and the program it builds
    enc,    \* a ReLU network, its mixed-integer encoding over a box, a solve
    hyb,    \* a hybrid linear system, its mode-selection encoding, a solve
    lyap,   \* a Lyapunov certificate, its derivative program, a checked state
    clf,    \* a control Lyapunov function, its value and derivative at a state
    cbf,    \* a control barrier function and its derivative at a state
    roa,    \* a region-of-attraction computation and its two programs
    cas,    \* a control-affine system, its encoding over a box, a solve
    ia,     \* one interval-arithmetic propagation through an affine layer
    buf     \* a SamplesBuffer object, its last call and what it returned

vars == <<sat, fbk, enc, hyb, lyap, clf, cbf, roa, cas, ia, buf>>

\* The value of a variable that a specification does not use.
Idle == [pc |-> "idle"]

-----------------------------------------------------------------------------
(* Dimensions and number representation *)

\* forward_system.x_dim and forward_system.u_dim of the test fixture.
x_dim == 2
u_dim == 2

\* Denominator of the fixed point (negative_slope = 1/SlopeDen = 0.1).
SlopeDen == 10

\* np.inf
Inf == 1000
PosInf == Inf
NegInf == -Inf

\* np.isinf
IsInf(v) == v = PosInf \/ v = NegInf

Min2(a, b) == IF a <= b THEN a ELSE b
Max2(a, b) == IF a >= b THEN a ELSE b
Abs(a) == IF a >= 0 THEN a ELSE -a

RECURSIVE SumSeq(_)
SumSeq(s) == IF s = <<>> THEN 0 ELSE Head(s) + SumSeq(Tail(s))

Dot(a, b) == SumSeq([i \in 1..Len(a) |-> a[i] * b[i]])
MatVec(W, v) == [i \in 1..Len(W) |-> Dot(W[i], v)]
VecAdd(a, b) == [i \in 1..Len(a) |-> a[i] + b[i]]
VecSub(a, b) == [i \in 1..Len(a) |-> a[i] - b[i]]
VecScale(c, a) == [i \in 1..Len(a) |-> c * a[i]]

-----------------------------------------------------------------------------
(* _add_input_saturation_constraint (feedback_system.py) *)

\* Mutant: the inner min written as max.
U_upper_bound_MaxForMin(u_lower_limit, u_upper_limit, u_pre_sat_up) ==
    [i \in 1..Len(u_upper_limit) |->
        Max2(Max2(u_upper_limit[i], u_pre_sat_up[i]), u_lower_limit[i])]

\* Mutant: the limits passed in the wrong order.
U_lower_bound_Swapped(u_lower_limit, u_upper_limit, u_pre_sat_lo) ==
    [i \in 1..Len(u_lower_limit) |->
        Min2(Max2(u_upper_limit[i], u_pre_sat_lo[i]), u_lower_limit[i])]

\* Mutant: "and" written as "or".
NoSaturation_Or(lower, upper) == IsInf(lower) \/ IsInf(upper)

\* torch.min(torch.max(u_lower_limit, u_pre_sat_lo), u_upper_limit)
U_lower_bound(u_lower_limit, u_upper_limit, u_pre_sat_lo) ==
    [i \in 1..Len(u_lower_limit) |->
        Min2(Max2(u_lower_limit[i], u_pre_sat_lo[i]), u_upper_limit[i])]

\* torch.max(torch.min(u_upper_limit, u_pre_sat_up), u_lower_limit)
U_upper_bound(u_lower_limit, u_upper_limit, u_pre_sat_up) ==
    [i \in 1..Len(u_upper_limit) |->
        Max2(Min2(u_upper_limit[i], u_pre_sat_up[i]), u_lower_limit[i])]

\* The branch of the loop that posts u_var[i] = u_pre_sat[i].
NoSaturation(lower, upper) == IsInf(lower) /\ IsInf(upper)

\* The assertion of the else branch: both limits are finite.
BothFinite(lower, upper) == ~IsInf(lower) /\ ~IsInf(upper)

\* mip.addLConstr([1, -1], [u_var[i], u_pre_sat[i]], rhs=0, sense=EQUAL):
\* one linear equality, no new variable.
EqualityConstr(i) == [kind |-> "equality", index |-> i, binaries |-> 0]

\* utils.add_saturation_as_mixed_integer_constraint: the three-segment map
\* u_var[i] = clip(u_pre_sat[i], lower, upper) with its binary.
SaturationConstr(i, lower, upper, pre_lo, pre_up) ==
    [kind |-> "saturation", index |-> i, binaries |-> 1,
     lower |-> lower, upper |-> upper, pre_lo |-> pre_lo, pre_up |-> pre_up]

\* The constraints the loop has posted after its first n iterations.
SaturationLoop(n, u_lower_limit, u_upper_limit, u_pre_sat_lo, u_pre_sat_up) ==
    [i \in 1..n |->
        IF NoSaturation(u_lower_limit[i], u_upper_limit[i])
        THEN EqualityConstr(i)
        ELSE SaturationConstr(i, u_lower_limit[i], u_upper_limit[i],
                              u_pre_sat_lo[i], u_pre_sat_up[i])]

\* The iterations at which the loop's assertion fails.
LoopFailures(u_lower_limit, u_upper_limit) ==
    {i \in 1..Len(u_lower_limit) :
        /\ ~NoSaturation(u_lower_limit[i], u_upper_limit[i])
        /\ ~BothFinite(u_lower_limit[i], u_upper_limit[i])}

SetMin(S) == CHOOSE m \in S : \A k \in S : m <= k
SetMax(S) == CHOOSE m \in S : \A k \in S : m >= k

\* The whole function: the two entry assertions, the bounds, the loop, the
\* exit assertion.  The result names the outcome, the returned bounds and
\* what was posted to the program (which stays posted when the loop raises).
AddInputSaturationConstraint(u_lower_limit, u_upper_limit, pre_lo, pre_up) ==
    LET n == Len(u_lower_limit)
        u_pre_sat_lo == pre_lo
        u_pre_sat_up == pre_up
        lb == U_lower_bound(u_lower_limit, u_upper_limit, u_pre_sat_lo)
        ub == U_upper_bound(u_lower_limit, u_upper_limit, u_pre_sat_up)
        bad == LoopFailures(u_lower_limit, u_upper_limit)
        none == [status |-> "raised", line |-> 0, u_lower_bound |-> <<>>,
                 u_upper_bound |-> <<>>, constrs |-> <<>>]
    IN  IF \E i \in 1..n : u_lower_limit[i] > u_upper_limit[i]
        THEN [none EXCEPT !.line = 303]
        ELSE IF \E i \in 1..n : u_pre_sat_lo[i] > u_pre_sat_up[i]
        THEN [none EXCEPT !.line = 304]
        ELSE IF bad # {}
        THEN [none EXCEPT !.line = 319,
                !.constrs = SaturationLoop(SetMin(bad) - 1, u_lower_limit,
                              u_upper_limit, u_pre_sat_lo, u_pre_sat_up)]
        ELSE IF \E i \in 1..n : lb[i] > ub[i]
        THEN [none EXCEPT !.line = 324,
                !.constrs = SaturationLoop(n, u_lower_limit, u_upper_limit,
                                           u_pre_sat_lo, u_pre_sat_up)]
        ELSE [status |-> "returned", line |-> 325,
              u_lower_bound |-> lb, u_upper_bound |-> ub,
              constrs |-> SaturationLoop(n, u_lower_limit, u_upper_limit,
                                         u_pre_sat_lo, u_pre_sat_up)]

\* torch.max(torch.min(u_pre_sat, u_upper_limit), u_lower_limit), one entry.
Saturate(v, lower, upper) == Max2(Min2(v, upper), lower)

-----------------------------------------------------------------------------
(* Specification SpecSat: one call of _add_input_saturation_constraint on   *)
(* every argument vector of the sets below.                                 *)

\* The largest pre-saturation bound tried, in units of 1/SlopeDen.
MaxPreSat == 50

LowerLimitVals == {NegInf, -10, 10}
UpperLimitVals == {-10, 10, PosInf}
PreSatLoVals == {-MaxPreSat, -5, 3}
PreSatUpVals == {-5, 3, MaxPreSat}

SatInit ==
    /\ \E lo \in [1..u_dim -> LowerLimitVals], up \in [1..u_dim -> UpperLimitVals],
          plo \in [1..u_dim -> PreSatLoVals], pup \in [1..u_dim -> PreSatUpVals] :
          sat = [pc |-> "call", u_lower_limit |-> lo, u_upper_limit |-> up,
                 u_pre_sat_lo |-> plo, u_pre_sat_up |-> pup,
                 ret |-> Idle]
    /\ fbk = Idle
    /\ enc = Idle
    /\ hyb = Idle
    /\ lyap = Idle
    /\ clf = Idle
    /\ cbf = Idle
    /\ roa = Idle
    /\ cas = Idle
    /\ ia = Idle
    /\ buf = Idle

CallAddInputSaturationConstraint ==
    /\ sat.pc = "call"
    /\ sat' = [sat EXCEPT !.pc = "done",
                 !.ret = AddInputSaturationConstraint(sat.u_lower_limit,
                            sat.u_upper_limit, sat.u_pre_sat_lo, sat.u_pre_sat_up)]
    /\ UNCHANGED <<fbk, enc, hyb, lyap, clf, cbf, roa, cas, ia, buf>>

SatNext == CallAddInputSaturationConstraint

SpecSat == SatInit /\ [][SatNext]_vars

-----------------------------------------------------------------------------
(* Networks: torch.nn.Sequential(Linear, LeakyReLU, Linear) and            *)
(* torch.nn.Linear, as the controller of a FeedbackSystem is one or the    *)
(* other.  A network's output is in units of 1/SlopeDen.                   *)

\* torch.nn.LeakyReLU(slope/SlopeDen) of an integer z, in units of 1/SlopeDen:
\* max(0, z) + negative_slope * min(0, z).
LeakyReLU(z, slope) == SlopeDen * Max2(0, z) + slope * Min2(0, z)

\* The pre-activation of the hidden layer.
PreActivation(net, x) == VecAdd(MatVec(net.W1, x), net.b1)

\* The bias of a Linear layer, or zeros when it is None.
LinearBias(net) == IF net.has_bias THEN net.bias ELSE [i \in 1..u_dim |-> 0]

\* network(x)
Forward(net, x) ==
    IF net.kind = "Sequential"
    THEN LET z == PreActivation(net, x)
             a == [j \in 1..Len(z) |-> LeakyReLU(z[j], net.slope)]
         IN  VecAdd(MatVec(net.W2, a), VecScale(SlopeDen, net.b2))
    ELSE VecScale(SlopeDen, VecAdd(MatVec(net.weight, x), LinearBias(net)))

-----------------------------------------------------------------------------
(* Bound propagation and the ReLU-to-MILP encoder                          *)
(* (relu_to_optimization.ReLUFreePattern.output_constraint with            *)
(* PropagateBoundsMethod.IA), for one hidden layer.                        *)

\* Mutant: W l + b, with no split of W by sign.
AffineLower_NoSplit(W, b, l, u) ==
    [j \in 1..Len(W) |-> SumSeq([i \in 1..Len(l) |-> W[j][i] * l[i]]) + b[j]]

\* Interval arithmetic through an affine layer: W+ l + W- u + b.
AffineLower(W, b, l, u) ==
    [j \in 1..Len(W) |->
        SumSeq([i \in 1..Len(l) |->
            IF W[j][i] >= 0 THEN W[j][i] * l[i] ELSE W[j][i] * u[i]]) + b[j]]

\* W+ u + W- l + b.
AffineUpper(W, b, l, u) ==
    [j \in 1..Len(W) |->
        SumSeq([i \in 1..Len(l) |->
            IF W[j][i] >= 0 THEN W[j][i] * u[i] ELSE W[j][i] * l[i]]) + b[j]]

\* The activation's interval map, in units of 1/SlopeDen:
\* [min(l, a l), max(u, a u)] when [l, u] spans zero, else the exact image.
ActivationLower(l, u, slope) ==
    IF l >= 0 THEN SlopeDen * l
    ELSE IF u <= 0 THEN slope * l
    ELSE Min2(SlopeDen * l, slope * l)

ActivationUpper(l, u, slope) ==
    IF l >= 0 THEN SlopeDen * u
    ELSE IF u <= 0 THEN slope * u
    ELSE Max2(SlopeDen * u, slope * u)

\* The three cases of a unit with pre-activation bound [l, u].
UnitKind(l, u) ==
    IF l >= 0 THEN "active"
    ELSE IF u <= 0 THEN "inactive"
    ELSE "spans"

\* Mutant: a binary only for the units that span zero, unit j's binary
\* standing at the place of unit j.
BinaryBounds_OnlySpanning(kind) ==
    IF kind = "spans" THEN <<0, 1>> ELSE <<0, -1>>

\* The binary of a unit: every hidden unit has one (the solution of the
\* program is read at beta[relu_unit_index[i][j]] for every unit), free when
\* the unit spans zero and fixed to the activation otherwise.
BinaryBounds(kind) ==
    IF kind = "spans" THEN <<0, 1>>
    ELSE IF kind = "active" THEN <<1, 1>>
    ELSE <<0, 0>>

\* The bundle of one hidden unit.
UnitConstraint(W, b, l, u) ==
    [W |-> W, b |-> b, lo |-> l, up |-> u, kind |-> UnitKind(l, u),
     binary |-> BinaryBounds(UnitKind(l, u))]

\* The bundle of a network over the box [x_lo, x_up].
OutputConstraint(net, x_lo, x_up) ==
    LET l == AffineLower(net.W1, net.b1, x_lo, x_up)
        u == AffineUpper(net.W1, net.b1, x_lo, x_up)
        H == Len(net.W1)
        alo == [j \in 1..H |-> ActivationLower(l[j], u[j], net.slope)]
        aup == [j \in 1..H |-> ActivationUpper(l[j], u[j], net.slope)]
        Cout == VecScale(SlopeDen, net.b2)
    IN  [units |-> [j \in 1..H |-> UnitConstraint(net.W1[j], net.b1[j], l[j], u[j])],
         slope |-> net.slope,
         Aout_slack |-> net.W2, Cout |-> Cout,
         Aout_input |-> "None", Aout_binary |-> "None",
         input_lo |-> x_lo, input_up |-> x_up,
         output_lo |-> AffineLower(net.W2, Cout, alo, aup),
         output_up |-> AffineUpper(net.W2, Cout, alo, aup)]

\* Mutant: the upper big-M constant of the inactive piece taken from the
\* lower bound.
SlackUpper_WrongBigM(unit, slope, pre, beta) ==
    Min2(SlopeDen * pre - (1 - beta) * (SlopeDen - slope) * unit.lo,
         slope * pre + beta * (SlopeDen - slope) * (-unit.lo))

\* The least slack the inequalities slack >= pre, slack >= a pre admit.
SlackLower(unit, slope, pre) == Max2(SlopeDen * pre, slope * pre)

\* The greatest slack the inequalities slack <= pre - (1 - beta)(1 - a) l,
\* slack <= a pre + beta (1 - a) u admit.
SlackUpper(unit, slope, pre, beta) ==
    Min2(SlopeDen * pre - (1 - beta) * (SlopeDen - slope) * unit.lo,
         slope * pre + beta * (SlopeDen - slope) * unit.up)

\* The feasible (slack, binary) pairs of one unit at pre-activation pre.
\* The constraints are linear with integer data in these units, so the
\* feasible slacks of a binary value are the interval between the two
\* bounds, which holds one real number exactly when it holds one integer.
UnitFeasible(unit, slope, pre) ==
    IF unit.kind = "spans"
    THEN UNION {{<<s, beta>> : s \in SlackLower(unit, slope, pre)..
                                    SlackUpper(unit, slope, pre, beta)} :
                   beta \in unit.binary[1]..unit.binary[2]}
    ELSE {<<IF unit.kind = "active" THEN SlopeDen * pre ELSE slope * pre, beta>> :
             beta \in unit.binary[1]..unit.binary[2]}

InBox(x, lo, up) == \A i \in 1..Len(x) : lo[i] <= x[i] /\ x[i] <= up[i]

\* The feasible assignments [slack, binary] of a bundle with its input
\* variables at x: none outside the bundle's input bounds.
BundleFeasible(cnstr, x) ==
    IF ~InBox(x, cnstr.input_lo, cnstr.input_up) THEN {}
    ELSE LET H == Len(cnstr.units)
             F == [j \in 1..H |->
                     UnitFeasible(cnstr.units[j], cnstr.slope,
                                  Dot(cnstr.units[j].W, x) + cnstr.units[j].b)]
         IN  {[slack |-> [j \in 1..H |-> a[j][1]],
               binary |-> [j \in 1..H |-> a[j][2]]] :
                 a \in {f \in [1..H -> UNION {F[j] : j \in 1..H}] :
                           \A j \in 1..H : f[j] \in F[j]}}

\* Aout_slack @ slack + Cout
BundleOutput(cnstr, slack) == VecAdd(MatVec(cnstr.Aout_slack, slack), cnstr.Cout)

\* The binary variables a program gets from a bundle.
Binaries(cnstr) ==
    {j \in 1..Len(cnstr.units) :
        cnstr.units[j].binary[1] <= cnstr.units[j].binary[2]}

-----------------------------------------------------------------------------
(* Specification SpecRelu: a network is encoded over a box, the input is   *)
(* pinned (test_add_lyap_relu_output_constraint) and the program solved.   *)

\* The half-width of the grid of states.
MaxX == 2

Grid == {<<a, b>> : a \in -MaxX..MaxX, b \in -MaxX..MaxX}

Boxes == {[lo |-> <<-MaxX, -MaxX>>, up |-> <<MaxX, MaxX>>],
          [lo |-> <<-1, -1>>, up |-> <<2, 1>>]}

HiddenWeights == {<< <<1, 0>>, <<0, 1>> >>, << <<1, 1>>, <<1, -1>> >>,
                  << <<2, 1>>, <<1, 0>> >>}
HiddenBiases == {<<0, 0>>, <<0, 3>>, <<1, -5>>}
OutputWeights == {<< <<1, 0>>, <<0, 1>> >>, << <<1, -1>>, <<2, 1>> >>}
OutputBiases == {<<0, 0>>, <<1, -2>>}
Slopes == {0, 1}

SequentialNetworks ==
    {[kind |-> "Sequential", W1 |-> W1, b1 |-> b1, slope |-> a,
      W2 |-> W2, b2 |-> b2] :
        W1 \in HiddenWeights, b1 \in HiddenBiases, a \in Slopes,
        W2 \in OutputWeights, b2 \in OutputBiases}

ReluInit ==
    /\ \E net \in SequentialNetworks, box \in Boxes :
          enc = [pc |-> "constructed", relu |-> net,
                 x_lo |-> box.lo, x_up |-> box.up,
                 cnstr |-> Idle, x |-> <<>>, sol |-> Idle]
    /\ sat = Idle
    /\ fbk = Idle
    /\ hyb = Idle
    /\ lyap = Idle
    /\ clf = Idle
    /\ cbf = Idle
    /\ roa = Idle
    /\ cas = Idle
    /\ ia = Idle
    /\ buf = Idle

\* relu_free_pattern.output_constraint(x_lo, x_up, IA)
CallOutputConstraint ==
    /\ enc.pc = "constructed"
    /\ enc' = [enc EXCEPT !.pc = "encoded",
                 !.cnstr = OutputConstraint(enc.relu, enc.x_lo, enc.x_up)]
    /\ UNCHANGED <<sat, fbk, hyb, lyap, clf, cbf, roa, cas, ia, buf>>

\* The bundle is posted on fresh x variables and x is pinned to a value.
PinInput ==
    /\ enc.pc = "encoded"
    /\ \E x \in Grid : enc' = [enc EXCEPT !.pc = "pinned", !.x = x]
    /\ UNCHANGED <<sat, fbk, hyb, lyap, clf, cbf, roa, cas, ia, buf>>

\* gurobi_model.optimize(): any feasible assignment, or INFEASIBLE.
Optimize ==
    /\ enc.pc = "pinned"
    /\ \E r \in (IF BundleFeasible(enc.cnstr, enc.x) = {}
                 THEN {[status |-> "INFEASIBLE", slack |-> <<>>, binary |-> <<>>]}
                 ELSE {[status |-> "OPTIMAL", slack |-> a.slack, binary |-> a.binary] :
                          a \in BundleFeasible(enc.cnstr, enc.x)}) :
          enc' = [enc EXCEPT !.pc = "solved", !.sol = r]
    /\ UNCHANGED <<sat, fbk, hyb, lyap, clf, cbf, roa, cas, ia, buf>>

ReluNext == CallOutputConstraint \/ PinInput \/ Optimize

SpecRelu == ReluInit /\ [][ReluNext]_vars

-----------------------------------------------------------------------------
(* The forward system of a FeedbackSystem: a HybridLinearSystem or a ReLU  *)
(* system.  Successor states are in units of 1/SlopeDen.                   *)

\* Mode i contains (x, u): P_i [x; u] <= q_i, here the box of the mode.
ModeContains(mode, x, u) ==
    InBox(x, mode.x_lo, mode.x_up) /\ InBox(u, mode.u_lo, mode.u_up)

\* A_i x + B_i u + g_i of one mode.
ModeStep(mode, x, u) ==
    VecAdd(VecAdd(MatVec(mode.A, x), MatVec(mode.B, u)), mode.g)

\* The indices of the modes whose polytope contains (x, u).
ActiveModes(sys, x, u) ==
    {i \in 1..Len(sys.modes) : ModeContains(sys.modes[i], x, u)}

\* HybridLinearSystem.step_forward(x, u): the successor and the index of the
\* first mode that contains (x, u); raises when no mode does.
HybridStepForward(sys, x, u) ==
    IF ActiveModes(sys, x, u) = {} THEN <<"raised">>
    ELSE LET mode == SetMin(ActiveModes(sys, x, u))
         IN  <<ModeStep(sys.modes[mode], x, u), mode>>

\* The step of a ReLU forward system: dynamics_relu on (x, u), one value.
ReluStepForward(sys, x, u) ==
    LET z == VecAdd(VecAdd(MatVec(sys.A, x), u), sys.b)
    IN  [i \in 1..Len(z) |-> Max2(0, z[i]) + sys.c[i]]

\* forward_system.add_dynamics_constraint(mip, x_var, x_next_var, u, ...):
\* the values of x_next the constraints admit at (x, u).
ForwardSuccessors(sys, x, u) ==
    IF sys.kind = "hybrid"
    THEN {ModeStep(sys.modes[i], x, u) : i \in ActiveModes(sys, x, u)}
    ELSE IF InBox(x, sys.x_lo_all, sys.x_up_all)
         THEN {ReluStepForward(sys, x, u)} ELSE {}

-----------------------------------------------------------------------------
(* FeedbackSystem (feedback_system.py) *)

\* compute_xhat._get_xhat_val: xhat[i] = x*[i] for i in xhat_indices, else
\* x[i]; xhat = x* when xhat_indices is None.
Xhat(x, x_equilibrium, xhat_indices) ==
    IF xhat_indices.is_none THEN x_equilibrium
    ELSE [i \in 1..Len(x) |->
            IF \E k \in 1..Len(xhat_indices.list) : xhat_indices.list[k] = i
            THEN x_equilibrium[i] ELSE x[i]]

\* Mutant: the module docstring's law, phi(x) - phi(x*) + u*.
U_pre_sat_AtEquilibrium(fs, x) ==
    VecAdd(VecSub(Forward(fs.controller_network, x),
                  Forward(fs.controller_network, fs.x_equilibrium)),
           fs.u_equilibrium)

\* u_pre_sat = controller_network(x) - controller_network(xhat) + u*
U_pre_sat(fs, x) ==
    LET xhat == Xhat(x, fs.x_equilibrium, fs.xhat_indices)
    IN  VecAdd(VecSub(Forward(fs.controller_network, x),
                      Forward(fs.controller_network, xhat)),
               fs.u_equilibrium)

\* Mutant: min against the lower limit, max against the upper limit.
SaturateRow_LimitsSwapped(fs, u_pre_sat) ==
    [i \in 1..Len(u_pre_sat) |->
        Max2(Min2(u_pre_sat[i], fs.u_lower_limit[i]), fs.u_upper_limit[i])]

\* torch.max(torch.min(u_pre_sat, u_upper_limit), u_lower_limit)
SaturateRow(fs, u_pre_sat) ==
    [i \in 1..Len(u_pre_sat) |->
        Saturate(u_pre_sat[i], fs.u_lower_limit[i], fs.u_upper_limit[i])]

\* compute_u(x).  x is a single state (x.batch = FALSE, one row) or a batch
\* of states; the limits are broadcast over the rows of a batch.
Compute_u(fs, x) ==
    LET u_pre_sat == [r \in 1..Len(x.rows) |-> U_pre_sat(fs, x.rows[r])]
    IN  IF ~x.batch
        THEN [batch |-> FALSE, rows |-> <<SaturateRow(fs, u_pre_sat[1])>>]
        ELSE [batch |-> TRUE,
              rows |-> [r \in 1..Len(x.rows) |-> SaturateRow(fs, u_pre_sat[r])]]

Single(x) == [batch |-> FALSE, rows |-> <<x>>]

\* step_forward(x): element 0 of what a hybrid forward system returns, the
\* successor of any other forward system.
StepForward(fs, x) ==
    LET u == Compute_u(fs, Single(x)).rows[1]
    IN  IF fs.forward_system.kind = "hybrid"
        THEN LET ret == HybridStepForward(fs.forward_system, x, u)
             IN  IF ret = <<"raised">> THEN [status |-> "raised", x_next |-> <<>>]
                 ELSE [status |-> "ok", x_next |-> ret[1]]
        ELSE [status |-> "ok", x_next |-> ReluStepForward(fs.forward_system, x, u)]

\* xhat_indices is None or xhat_indices == list(range(x_dim))
XhatIsEquilibrium(fs) ==
    fs.xhat_indices.is_none
        \/ fs.xhat_indices.list = [i \in 1..x_dim |-> i]

\* in_features == x_dim and out_features == u_dim, for a Sequential (its
\* first and last layer) or a Linear.
ControllerSizesMatch(forward_system, controller_network) ==
    IF controller_network.kind = "Sequential"
    THEN /\ Len(controller_network.W1[1]) = Len(forward_system.x_lo_all)
         /\ Len(controller_network.W2) = u_dim
    ELSE /\ Len(controller_network.weight[1]) = Len(forward_system.x_lo_all)
         /\ Len(controller_network.weight) = u_dim

\* Mutant: a controller of any other type is accepted.
ControllerCheck_Lenient(forward_system, controller_network) ==
    IF controller_network.kind \in {"Sequential", "Linear"}
          /\ ~ControllerSizesMatch(forward_system, controller_network)
    THEN "AssertionError" ELSE "none"

\* __init__: the controller is a Sequential or a Linear whose input and
\* output sizes are those of the forward system; any other type raises.
ControllerCheck(forward_system, controller_network) ==
    IF controller_network.kind = "Sequential"
    THEN IF ControllerSizesMatch(forward_system, controller_network)
         THEN "none" ELSE "AssertionError"
    ELSE IF controller_network.kind = "Linear"
    THEN IF ControllerSizesMatch(forward_system, controller_network)
         THEN "none" ELSE "AssertionError"
    ELSE "Exception"

\* Mutant: the pattern keeps the parameter values the network had when the
\* pattern was built.
ReLUFreePattern_Copy(model) == [by_reference |-> FALSE, model |-> model]

\* relu_to_optimization.ReLUFreePattern(model, dtype): the pattern keeps
\* the network object, not its parameter values.
ReLUFreePattern(model) == [by_reference |-> TRUE, model |-> "controller_network"]

\* The network whose parameters controller_relu_free_pattern reads when
\* output_constraint is called.
PatternModel(fs) ==
    IF fs.controller_relu_free_pattern.by_reference
    THEN fs.controller_network
    ELSE fs.controller_relu_free_pattern.model

\* FeedbackSystem(forward_system, controller_network, x_equilibrium,
\* u_equilibrium, u_lower_limit, u_upper_limit, xhat_indices): the object,
\* or what the constructor raised.
FeedbackSystem(forward_system, controller_network, x_equilibrium, u_equilibrium, u_lower_limit, u_upper_limit, xhat_indices) ==
    LET raised == ControllerCheck(forward_system, controller_network)
    IN  IF raised # "none" THEN [raised |-> raised, obj |-> Idle]
        ELSE [raised |-> "none",
              obj |-> [forward_system |-> forward_system,
                       controller_network |-> controller_network,
                       x_equilibrium |-> x_equilibrium,
                       u_equilibrium |-> u_equilibrium,
                       controller_relu_free_pattern |->
                           IF controller_network.kind = "Sequential"
                           THEN ReLUFreePattern(controller_network) ELSE Idle,
                       u_lower_limit |-> u_lower_limit,
                       u_upper_limit |-> u_upper_limit,
                       xhat_indices |-> xhat_indices]]

\* _add_network_controller_mip_constraint: the controller's bundle on x_var,
\* phi(xhat) as a constant or as a second bundle, the bounds of u_pre_sat and
\* the saturation of u_pre_sat onto u_var.
AddNetworkControllerMipConstraint(fs, x_var, u_var) ==
    LET sys == fs.forward_system
        cnstr == OutputConstraint(PatternModel(fs), sys.x_lo_all, sys.x_up_all)
        at_eq == Forward(fs.controller_network, fs.x_equilibrium)
        xhat_lo == IF XhatIsEquilibrium(fs) THEN at_eq ELSE cnstr.output_lo
        xhat_up == IF XhatIsEquilibrium(fs) THEN at_eq ELSE cnstr.output_up
        u_pre_sat_lo == VecAdd(VecSub(cnstr.output_lo, xhat_up), fs.u_equilibrium)
        u_pre_sat_up == VecAdd(VecSub(cnstr.output_up, xhat_lo), fs.u_equilibrium)
        ret == AddInputSaturationConstraint(fs.u_lower_limit, fs.u_upper_limit,
                                            u_pre_sat_lo, u_pre_sat_up)
    IN  [status |-> ret.status, kind |-> "Sequential",
         x_var |-> x_var, u_var |-> u_var, cnstr |-> cnstr,
         xhat_constant |-> XhatIsEquilibrium(fs),
         u_pre_sat_lo |-> u_pre_sat_lo, u_pre_sat_up |-> u_pre_sat_up,
         saturation |-> ret.constrs,
         u_lower_bound |-> ret.u_lower_bound, u_upper_bound |-> ret.u_upper_bound]

\* _add_linear_controller_mip_constraint: W x - u_pre_sat = phi(x*) - u* -
\* bias on x_var, the bounds of u_pre_sat and the saturation onto u_var.  It
\* asserts that xhat is the equilibrium.
AddLinearControllerMipConstraint(fs, x_var, u_var) ==
    LET sys == fs.forward_system
        net == fs.controller_network
        at_eq == Forward(net, fs.x_equilibrium)
        out_lo == VecScale(SlopeDen, AffineLower(net.weight, LinearBias(net),
                                                 sys.x_lo_all, sys.x_up_all))
        out_up == VecScale(SlopeDen, AffineUpper(net.weight, LinearBias(net),
                                                 sys.x_lo_all, sys.x_up_all))
        u_pre_sat_lo == VecAdd(VecSub(out_lo, at_eq), fs.u_equilibrium)
        u_pre_sat_up == VecAdd(VecSub(out_up, at_eq), fs.u_equilibrium)
        ret == AddInputSaturationConstraint(fs.u_lower_limit, fs.u_upper_limit,
                                            u_pre_sat_lo, u_pre_sat_up)
    IN  [status |-> IF XhatIsEquilibrium(fs) THEN ret.status ELSE "raised",
         kind |-> "Linear",
         x_var |-> x_var, u_var |-> u_var, cnstr |-> Idle,
         xhat_constant |-> TRUE,
         u_pre_sat_lo |-> u_pre_sat_lo, u_pre_sat_up |-> u_pre_sat_up,
         saturation |-> ret.constrs,
         u_lower_bound |-> ret.u_lower_bound, u_upper_bound |-> ret.u_upper_bound]

\* _add_controller_mip_constraint: the dispatch on the controller's type.
AddControllerMipConstraint(fs, x_var, u_var) ==
    IF fs.controller_network.kind = "Sequential"
    THEN AddNetworkControllerMipConstraint(fs, x_var, u_var)
    ELSE AddLinearControllerMipConstraint(fs, x_var, u_var)

\* Mutant: the controller constrains control variables of its own, not the
\* ones the forward dynamics consume.
AddDynamicsMipConstraint_OwnU(fs, x_var, x_next_var, u_var_name) ==
    [u |-> u_var_name,
     forward |-> [x_var |-> x_var, x_next_var |-> x_next_var, u_var |-> u_var_name],
     controller |-> AddControllerMipConstraint(fs, x_var, "u_controller")]

\* add_dynamics_mip_constraint: new variables u, the forward dynamics on
\* (x_var, x_next_var, u), the controller on (x_var, u).
AddDynamicsMipConstraint(fs, x_var, x_next_var, u_var_name) ==
    [u |-> u_var_name,
     forward |-> [x_var |-> x_var, x_next_var |-> x_next_var, u_var |-> u_var_name],
     controller |-> AddControllerMipConstraint(fs, x_var, u_var_name)]

\* The values of phi(x) the controller's program admits at x: the output of
\* its bundle for a network, W x + bias for a linear controller.
ControllerOutputs(fs, ctrl, x) ==
    IF ctrl.kind = "Sequential"
    THEN {BundleOutput(ctrl.cnstr, a.slack) : a \in BundleFeasible(ctrl.cnstr, x)}
    ELSE {VecScale(SlopeDen, VecAdd(MatVec(fs.controller_network.weight, x),
                                    LinearBias(fs.controller_network)))}

\* The values of phi(xhat) the program admits at x: the constant phi(x*), or
\* the output of the second bundle with its input at xhat
\* (compute_xhat._compute_network_at_xhat).
XhatOutputs(fs, ctrl, x) ==
    IF ctrl.xhat_constant
    THEN {Forward(fs.controller_network, fs.x_equilibrium)}
    ELSE {BundleOutput(ctrl.cnstr, a.slack) :
             a \in BundleFeasible(ctrl.cnstr, Xhat(x, fs.x_equilibrium, fs.xhat_indices))}

\* What a posted saturation or equality constraint admits for u_var[i] at
\* u_pre_sat[i] = v.
ConstrValue(c, v) ==
    IF c.kind = "equality" THEN v ELSE Max2(Min2(v, c.upper), c.lower)

\* The values of the controller's u variables the program admits at x.
ControllerControls(fs, ctrl, x) ==
    {[i \in 1..u_dim |->
        ConstrValue(ctrl.saturation[i], o[i] - h[i] + fs.u_equilibrium[i])] :
        o \in ControllerOutputs(fs, ctrl, x), h \in XhatOutputs(fs, ctrl, x)}

\* Values a control variable that no constraint mentions may take.
FreeControls == {<<a, b>> : a \in {-SlopeDen, 0, SlopeDen}, b \in {-SlopeDen, 0, SlopeDen}}

\* The feasible solutions [x, u, x_next] of the program with x pinned: u is
\* what the controller admits when the controller constrains the variables
\* the forward dynamics consume, and free otherwise.
ProgramFeasible(fs, mip, x) ==
    LET U == IF mip.controller.u_var = mip.forward.u_var
                  /\ mip.controller.x_var = mip.forward.x_var
             THEN ControllerControls(fs, mip.controller, x)
             ELSE IF ControllerControls(fs, mip.controller, x) = {} THEN {}
                  ELSE FreeControls
    IN  UNION {{[x |-> x, u |-> u, x_next |-> xn] :
                   xn \in ForwardSuccessors(fs.forward_system, x, u)} : u \in U}

-----------------------------------------------------------------------------
(* Specification SpecFb: a FeedbackSystem computes u for a state or a      *)
(* batch, or builds the closed-loop program, pins x and solves it.         *)

\* forward system of setup_hybrid_feedback_system: x' = 0.9 x + u where
\* x[0] <= 0, x' = 1.1 x - u where x[0] >= 0, -10 <= u <= 10.
HybridForward ==
    [kind |-> "hybrid",
     x_lo_all |-> <<-MaxX, -MaxX>>, x_up_all |-> <<MaxX, MaxX>>,
     modes |-> <<
        [A |-> << <<9, 0>>, <<0, 9>> >>, B |-> << <<1, 0>>, <<0, 1>> >>,
         g |-> <<0, 0>>,
         x_lo |-> <<-MaxX, -MaxX>>, x_up |-> <<0, MaxX>>,
         u_lo |-> <<-100, -100>>, u_up |-> <<100, 100>>],
        [A |-> << <<11, 0>>, <<0, 11>> >>, B |-> << <<-1, 0>>, <<0, -1>> >>,
         g |-> <<0, 0>>,
         x_lo |-> <<0, -MaxX>>, x_up |-> <<MaxX, MaxX>>,
         u_lo |-> <<-100, -100>>, u_up |-> <<100, 100>>] >>]

\* A ReLU forward system over the same box.
ReluForward ==
    [kind |-> "relu",
     x_lo_all |-> <<-MaxX, -MaxX>>, x_up_all |-> <<MaxX, MaxX>>,
     A |-> << <<9, 0>>, <<1, 9>> >>, b |-> <<10, 0>>, c |-> <<-10, 0>>]

ForwardSystems == {HybridForward, ReluForward}

LinearNetworks ==
    {[kind |-> "Linear", weight |-> W, bias |-> <<0, 3>>, has_bias |-> hb] :
        W \in HiddenWeights, hb \in BOOLEAN}

ControllerNetworks ==
    {net \in SequentialNetworks :
        net.b1 # <<0, 3>> /\ net.W2 # << <<1, 0>>, <<0, 1>> >> /\ net.b2 # <<0, 0>>}
    \cup LinearNetworks

Equilibria == {[x |-> <<0, 0>>, u |-> <<1, 1>>], [x |-> <<1, -1>>, u |-> <<0, -20>>]}

Limits == {[lo |-> <<NegInf, NegInf>>, up |-> <<PosInf, PosInf>>],
           [lo |-> <<-10, -10>>, up |-> <<10, 10>>],
           [lo |-> <<-10, NegInf>>, up |-> <<10, PosInf>>],
           [lo |-> <<-10, -10>>, up |-> <<10, PosInf>>]}

XhatIndices == {[is_none |-> TRUE, list |-> <<>>]}
    \cup {[is_none |-> FALSE, list |-> l] : l \in {<<>>, <<1>>, <<2>>, <<1, 2>>}}

FeedbackSystems ==
    {FeedbackSystem(sys, net, eq.x, eq.u, lim.lo, lim.up, idx).obj :
        sys \in ForwardSystems, net \in ControllerNetworks, eq \in Equilibria,
        lim \in Limits, idx \in XhatIndices}

\* The batches handed to compute_u.
Batches == {<< <<0, 0>>, <<1, -1>> >>, << <<-2, 1>>, <<2, 2>>, <<1, -1>> >>}

FbInit ==
    /\ \E fs \in FeedbackSystems :
          fbk = [pc |-> "constructed", fs |-> fs, x |-> Idle, u |-> Idle,
                 mip |-> Idle, sol |-> Idle]
    /\ sat = Idle
    /\ enc = Idle
    /\ hyb = Idle
    /\ lyap = Idle
    /\ clf = Idle
    /\ cbf = Idle
    /\ roa = Idle
    /\ cas = Idle
    /\ ia = Idle
    /\ buf = Idle

\* compute_u(x) on a single state or on a batch.
CallComputeU ==
    /\ fbk.pc = "constructed"
    /\ \E x \in {Single(v) : v \in Grid} \cup {[batch |-> TRUE, rows |-> b] : b \in Batches} :
          fbk' = [fbk EXCEPT !.pc = "computed", !.x = x, !.u = Compute_u(fbk.fs, x)]
    /\ UNCHANGED <<sat, enc, hyb, lyap, clf, cbf, roa, cas, ia, buf>>

\* add_dynamics_mip_constraint(mip, x, x_next, ...): the program, or the
\* assertion of the controller part that failed.
CallAddDynamicsMipConstraint ==
    /\ fbk.pc = "constructed"
    /\ LET mip == AddDynamicsMipConstraint(fbk.fs, "x", "x_next", "u")
       IN  fbk' = [fbk EXCEPT
                     !.pc = IF mip.controller.status = "returned" THEN "built" ELSE "raised",
                     !.mip = mip]
    /\ UNCHANGED <<sat, enc, hyb, lyap, clf, cbf, roa, cas, ia, buf>>

\* x is pinned to a state of the grid.
PinState ==
    /\ fbk.pc = "built"
    /\ \E x \in Grid : fbk' = [fbk EXCEPT !.pc = "pinned", !.x = x]
    /\ UNCHANGED <<sat, enc, hyb, lyap, clf, cbf, roa, cas, ia, buf>>

\* gurobi_model.optimize(): any feasible solution, or INFEASIBLE.
OptimizeProgram ==
    /\ fbk.pc = "pinned"
    /\ \E r \in (IF ProgramFeasible(fbk.fs, fbk.mip, fbk.x) = {}
                 THEN {[status |-> "INFEASIBLE"]}
                 ELSE {[status |-> "OPTIMAL", x |-> a.x, u |-> a.u, x_next |-> a.x_next] :
                          a \in ProgramFeasible(fbk.fs, fbk.mip, fbk.x)}) :
          fbk' = [fbk EXCEPT !.pc = "solved", !.sol = r]
    /\ UNCHANGED <<sat, enc, hyb, lyap, clf, cbf, roa, cas, ia, buf>>

FbNext ==
    CallComputeU \/ CallAddDynamicsMipConstraint \/ PinState \/ OptimizeProgram

SpecFb == FbInit /\ [][FbNext]_vars

-----------------------------------------------------------------------------
(* Specification SpecTrain: a FeedbackSystem is constructed from a         *)
(* controller; the closed-loop program is built and solved, and between    *)
(* two solves the controller's parameters are updated in place.            *)

\* The number of in-place updates of the parameters.
MaxSteps == 2

\* The parameter values an update may leave in the controller.
TrainControllers ==
    {net \in SequentialNetworks :
        /\ net.W1 = << <<1, 1>>, <<1, -1>> >>
        /\ net.b1 \in {<<0, 3>>, <<1, -5>>}
        /\ net.W2 = << <<1, -1>>, <<2, 1>> >>
        /\ net.slope \in {0, 1}}

\* Controllers handed to the constructor: networks, linear layers, a
\* linear layer with one output only, and modules of other types.
ConstructorControllers ==
    TrainControllers
        \cup {[kind |-> "Linear", weight |-> << <<1, 0>>, <<0, 1>> >>,
               bias |-> <<0, 3>>, has_bias |-> TRUE],
              [kind |-> "Linear", weight |-> << <<1, 0>> >>,
               bias |-> <<0>>, has_bias |-> TRUE],
              [kind |-> "ReLU"], [kind |-> "ModuleList"]}

\* No limit on u, or the same limits on both entries of u.
TrainLimits == {lim \in Limits : lim.lo[1] = lim.lo[2] /\ lim.up[1] = lim.up[2]}

\* The states at which the program is solved.
TrainStates == {<<0, 0>>, <<1, -1>>, <<-2, 1>>, <<2, 2>>}

TrainInit ==
    /\ fbk = [pc |-> "start", args |-> Idle, raised |-> "none", fs |-> Idle,
              steps |-> 0, mip |-> Idle, x |-> Idle, sol |-> Idle]
    /\ sat = Idle
    /\ enc = Idle
    /\ hyb = Idle
    /\ lyap = Idle
    /\ clf = Idle
    /\ cbf = Idle
    /\ roa = Idle
    /\ cas = Idle
    /\ ia = Idle
    /\ buf = Idle

\* FeedbackSystem(forward_system, controller_network, ...)
Construct ==
    /\ fbk.pc = "start"
    /\ \E net \in ConstructorControllers, lim \in TrainLimits :
          LET r == FeedbackSystem(HybridForward, net, <<0, 0>>, <<1, 1>>,
                                  lim.lo, lim.up, [is_none |-> TRUE, list |-> <<>>])
          IN  fbk' = [fbk EXCEPT
                        !.pc = IF r.raised = "none" THEN "constructed" ELSE "raised",
                        !.args = [controller_network |-> net],
                        !.raised = r.raised,
                        !.fs = r.obj]
    /\ UNCHANGED <<sat, enc, hyb, lyap, clf, cbf, roa, cas, ia, buf>>

\* optimizer.step(): the parameters of the controller are overwritten in
\* place, before the first solve or between two solves.
OptimizerStep ==
    /\ fbk.pc \in {"constructed", "solved"}
    /\ fbk.fs.controller_network.kind = "Sequential"
    /\ fbk.steps < MaxSteps
    /\ \E net \in TrainControllers \ {fbk.fs.controller_network} :
          fbk' = [fbk EXCEPT !.pc = "constructed", !.steps = @ + 1,
                             !.fs.controller_network = net]
    /\ UNCHANGED <<sat, enc, hyb, lyap, clf, cbf, roa, cas, ia, buf>>

\* add_dynamics_mip_constraint(mip, x, x_next, ...) on a new program.
BuildProgram ==
    /\ fbk.pc = "constructed"
    /\ fbk.fs.controller_network.kind \in {"Sequential", "Linear"}
    /\ LET mip == AddDynamicsMipConstraint(fbk.fs, "x", "x_next", "u")
       IN  fbk' = [fbk EXCEPT
                     !.pc = IF mip.controller.status = "returned" THEN "built" ELSE "failed",
                     !.mip = mip]
    /\ UNCHANGED <<sat, enc, hyb, lyap, clf, cbf, roa, cas, ia, buf>>

\* x is pinned and the program solved: any feasible solution, or
\* INFEASIBLE.
SolveProgram ==
    /\ fbk.pc = "built"
    /\ \E x \in TrainStates :
       \E r \in (IF ProgramFeasible(fbk.fs, fbk.mip, x) = {}
                 THEN {[status |-> "INFEASIBLE"]}
                 ELSE {[status |-> "OPTIMAL", x |-> a.x, u |-> a.u, x_next |-> a.x_next] :
                          a \in ProgramFeasible(fbk.fs, fbk.mip, x)}) :
          fbk' = [fbk EXCEPT !.pc = "solved", !.x = x, !.sol = r]
    /\ UNCHANGED <<sat, enc, hyb, lyap, clf, cbf, roa, cas, ia, buf>>

TrainNext == Construct \/ OptimizerStep \/ BuildProgram \/ SolveProgram

SpecTrain == TrainInit /\ [][TrainNext]_vars

-----------------------------------------------------------------------------
(* AutonomousHybridLinearSystem: x' = A_i x + g_i where P_i x <= q_i, and  *)
(* its mixed-integer constraints with one slack block s_i and one binary   *)
(* gamma_i per mode:                                                       *)
(*   P_i s_i <= q_i gamma_i,  sum_i s_i = x,  sum_i gamma_i = 1,           *)
(*   x' = Aout_slack s + Aout_binary gamma = sum_i A_i s_i + g_i gamma_i.  *)

\* P x <= q
InPolytope(P, q, x) == \A r \in 1..Len(P) : Dot(P[r], x) <= q[r]

\* system.mode(x): the first mode whose polytope contains x, 0 for None.
Mode(system, x) ==
    LET in == {i \in 1..Len(system.modes) :
                  InPolytope(system.modes[i].P, system.modes[i].q, x)}
    IN  IF in = {} THEN 0 ELSE SetMin(in)

\* system.mixed_integer_constraints()
MixedIntegerConstraints(system) ==
    [num_modes |-> Len(system.modes),
     Aout_slack |-> [i \in 1..Len(system.modes) |-> system.modes[i].A],
     Aout_binary |-> [i \in 1..Len(system.modes) |-> system.modes[i].g],
     P |-> [i \in 1..Len(system.modes) |-> system.modes[i].P],
     q |-> [i \in 1..Len(system.modes) |-> system.modes[i].q]]

\* Mutant: the right-hand side of a mode's polytope without its binary.
PolytopeRhs_NoGamma(q, gamma) == q

\* The right-hand side q_i gamma_i of a row of mode i.
PolytopeRhs(q, gamma) == q * gamma

\* Slack blocks lie in their mode's polytope or are zero, hence in the box.
SlackBlocks(system) ==
    {<<a, b>> : a \in system.x_lo_all[1]..system.x_up_all[1],
                b \in system.x_lo_all[2]..system.x_up_all[2]}

\* gamma is binary and sums to one.
OneHots(n) == {g \in [1..n -> {0, 1}] : SumSeq(g) = 1}

RECURSIVE SumBlocks(_, _)
SumBlocks(s, n) == IF n = 0 THEN <<0, 0>> ELSE VecAdd(SumBlocks(s, n - 1), s[n])

\* The feasible [s, gamma] of the constraints at x.  The last block is
\* x minus the others, which is the constraint sum_i s_i = x.
HybridFeasible(system, cnstr, x) ==
    LET n == cnstr.num_modes
        Complete(head) == head \o <<VecSub(x, SumBlocks(head, n - 1))>>
    IN  UNION {
          {[s |-> Complete(head), gamma |-> gamma] :
              head \in {h \in [1..(n - 1) -> SlackBlocks(system)] :
                  \A i \in 1..n : \A r \in 1..Len(cnstr.P[i]) :
                      Dot(cnstr.P[i][r], Complete(h)[i])
                          <= PolytopeRhs(cnstr.q[i][r], gamma[i])}} :
          gamma \in OneHots(n)}

\* Aout_slack s + Aout_binary gamma
HybridOutput(cnstr, sol) ==
    LET term(i) == VecAdd(MatVec(cnstr.Aout_slack[i], sol.s[i]),
                          VecScale(sol.gamma[i], cnstr.Aout_binary[i]))
        Sum[k \in 0..cnstr.num_modes] ==
            IF k = 0 THEN <<0, 0>> ELSE VecAdd(Sum[k - 1], term(k))
    IN  Sum[cnstr.num_modes]

-----------------------------------------------------------------------------
(* Specification SpecHybrid: a hybrid system is encoded, x is pinned to a  *)
(* state and the program is solved.                                        *)

\* The rows of P and q of the box lo <= x <= up.
BoxP == << <<1, 0>>, <<0, 1>>, <<-1, 0>>, <<0, -1>> >>

BoxQ(lo, up) == <<up[1], up[2], -lo[1], -lo[2]>>

BoxMode(A, g, lo, up) == [A |-> A, g |-> g, P |-> BoxP, q |-> BoxQ(lo, up)]

HybridSystem(modes) ==
    [x_lo_all |-> <<-MaxX, -MaxX>>, x_up_all |-> <<MaxX, MaxX>>, modes |-> modes]

ModeMaps ==
    {[A1 |-> << <<1, 0>>, <<0, 1>> >>, g1 |-> <<1, 0>>,
      A2 |-> << <<0, -1>>, <<1, 0>> >>, g2 |-> <<0, -1>>],
     [A1 |-> << <<2, 1>>, <<-1, 1>> >>, g1 |-> <<0, 0>>,
      A2 |-> << <<1, -2>>, <<0, 3>> >>, g2 |-> <<1, 1>>]}

\* Two modes that share the face x[1] = 0 and leave x[1] < -1 uncovered;
\* two modes with overlapping interiors; two modes cut by x[1] + x[2] with
\* a gap between them; three modes that meet at the origin.
HybridSystems ==
    UNION {{
        HybridSystem(<<BoxMode(m.A1, m.g1, <<-1, -MaxX>>, <<0, MaxX>>),
                       BoxMode(m.A2, m.g2, <<0, -MaxX>>, <<MaxX, MaxX>>)>>),
        HybridSystem(<<BoxMode(m.A1, m.g1, <<-MaxX, -MaxX>>, <<1, MaxX>>),
                       BoxMode(m.A2, m.g2, <<-1, -MaxX>>, <<MaxX, MaxX>>)>>),
        HybridSystem(<<[A |-> m.A1, g |-> m.g1, P |-> BoxP \o << <<1, 1>> >>,
                        q |-> BoxQ(<<-MaxX, -MaxX>>, <<MaxX, MaxX>>) \o <<0>>],
                       [A |-> m.A2, g |-> m.g2, P |-> BoxP \o << <<-1, -1>> >>,
                        q |-> BoxQ(<<-MaxX, -MaxX>>, <<MaxX, MaxX>>) \o <<-2>>]>>),
        HybridSystem(<<BoxMode(m.A1, m.g1, <<-MaxX, -MaxX>>, <<0, MaxX>>),
                       BoxMode(m.A2, m.g2, <<0, -MaxX>>, <<MaxX, 0>>),
                       BoxMode(m.A1, m.g2, <<0, 0>>, <<MaxX, MaxX>>)>>)} :
        m \in ModeMaps}

HybridInit ==
    /\ \E system \in HybridSystems :
          hyb = [pc |-> "constructed", system |-> system, cnstr |-> Idle,
                 x |-> <<>>, sol |-> Idle]
    /\ sat = Idle
    /\ fbk = Idle
    /\ enc = Idle
    /\ lyap = Idle
    /\ clf = Idle
    /\ cbf = Idle
    /\ roa = Idle
    /\ cas = Idle
    /\ ia = Idle
    /\ buf = Idle

\* add_system_constraint(milp, x, None)
CallAddSystemConstraint ==
    /\ hyb.pc = "constructed"
    /\ hyb' = [hyb EXCEPT !.pc = "encoded",
                          !.cnstr = MixedIntegerConstraints(hyb.system)]
    /\ UNCHANGED <<sat, fbk, enc, lyap, clf, cbf, roa, cas, ia, buf>>

\* x is fixed to x_val.
PinHybridState ==
    /\ hyb.pc = "encoded"
    /\ \E x \in Grid : hyb' = [hyb EXCEPT !.pc = "pinned", !.x = x]
    /\ UNCHANGED <<sat, fbk, enc, lyap, clf, cbf, roa, cas, ia, buf>>

\* gurobi_model.optimize(): any feasible solution, or INFEASIBLE.
OptimizeHybrid ==
    /\ hyb.pc = "pinned"
    /\ \E r \in (IF HybridFeasible(hyb.system, hyb.cnstr, hyb.x) = {}
                 THEN {[status |-> "INFEASIBLE"]}
                 ELSE {[status |-> "OPTIMAL", s |-> a.s, gamma |-> a.gamma,
                        x_next |-> HybridOutput(hyb.cnstr, a)] :
                          a \in HybridFeasible(hyb.system, hyb.cnstr, hyb.x)}) :
          hyb' = [hyb EXCEPT !.pc = "solved", !.sol = r]
    /\ UNCHANGED <<sat, fbk, enc, lyap, clf, cbf, roa, cas, ia, buf>>

HybridNext == CallAddSystemConstraint \/ PinHybridState \/ OptimizeHybrid

SpecHybrid == HybridInit /\ [][HybridNext]_vars

-----------------------------------------------------------------------------
(* LyapunovDiscreteTimeHybridSystem and its derivative program *)

\* V(x) = phi(x) - phi(x*) + lambda |R (x - x*)|_1; the program maximises
\* V(x') - V(x) + epsilon V(x) (ConvergenceEps.ExpLower).  V is in units of
\* 1/SlopeDen, epsilon in units of 1/SlopeDen and the objective in units of
\* 1/SlopeDen^2.

\* compute_xhat._get_xbar_indices: every index when xbar_indices is None.
XbarIndices(dim, xbar_indices) ==
    IF xbar_indices.is_none THEN [i \in 1..dim |-> i] ELSE xbar_indices.list

\* x[indices]
Select(x, indices) == [k \in 1..Len(indices) |-> x[indices[k]]]

\* |R (x - x*)|_1
L1Norm(R, x, x_equilibrium) ==
    LET y == MatVec(R, VecSub(x, x_equilibrium))
    IN  SumSeq([i \in 1..Len(y) |-> Abs(y[i])])

\* |R (xbar - xbar*)|_1 with xbar = x[xbar_indices]
StateNorm(dut, x) ==
    LET indices == XbarIndices(Len(x), dut.xbar_indices)
    IN  L1Norm(dut.R, Select(x, indices), Select(dut.x_equilibrium, indices))

\* lyapunov_value(x, x_equilibrium, V_lambda, R=R, xbar_indices=xbar_indices)
LyapunovValue(dut, x) ==
    Forward(dut.relu, x)[1] - Forward(dut.relu, dut.x_equilibrium)[1]
        + SlopeDen * dut.V_lambda * StateNorm(dut, x)

\* system.step_forward(x) of an autonomous hybrid system: the map of the
\* mode of x.
AutonomousStepForward(system, x) ==
    LET i == Mode(system, x)
    IN  VecAdd(MatVec(system.modes[i].A, x), system.modes[i].g)

\* v_next - v + dV_epsilon * v
DerivativeCost(dut, v, v_next) == SlopeDen * (v_next - v) + dut.dV_epsilon * v

\* cost_expected for v = V(x_val) and v_next = V(x_next_val), by eps_type.
CostExpectedOf(dut, x, v, v_next) ==
    CASE dut.eps_type = "ExpLower" -> DerivativeCost(dut, v, v_next)
      [] dut.eps_type = "ExpUpper" -> -DerivativeCost(dut, v, v_next)
      [] dut.eps_type = "Asymp" ->
            SlopeDen * (v_next - v)
                + dut.dV_epsilon * SlopeDen
                    * L1Norm(dut.R,
                             Select(x, XbarIndices(Len(x), dut.xbar_indices)),
                             Select(dut.x_equilibrium,
                                    XbarIndices(Len(x), dut.xbar_indices)))

\* cost_expected at x_val: the direct evaluation at x and step_forward(x).
CostExpected(dut, x) ==
    CostExpectedOf(dut, x, LyapunovValue(dut, x),
                   LyapunovValue(dut, AutonomousStepForward(dut.system, x)))

\* Mutant: the objective of ExpLower whatever eps_type is.
ProgramObjective_AlwaysExpLower(dut, x, v, v_next) == DerivativeCost(dut, v, v_next)

\* The objective of the program by eps_type: V(x') - V(x) + epsilon V(x)
\* (ExpLower), its negation (ExpUpper), or
\* V(x') - V(x) + epsilon |R (xbar - xbar*)|_1 (Asymp).
ProgramObjective(dut, x, v, v_next) ==
    IF dut.eps_type = "ExpLower" THEN DerivativeCost(dut, v, v_next)
    ELSE IF dut.eps_type = "ExpUpper" THEN 0 - DerivativeCost(dut, v, v_next)
    ELSE SlopeDen * (v_next - v) + dut.dV_epsilon * SlopeDen * StateNorm(dut, x)

\* lyapunov_derivative_as_milp: the system's constraints on (x, x_next) and
\* the network's bundle, posted once at x and once at x_next.
LyapunovDerivativeAsMilp(dut) ==
    [system |-> MixedIntegerConstraints(dut.system),
     relu |-> OutputConstraint(dut.relu, dut.system.x_lo_all, dut.system.x_up_all),
     relu_at_equilibrium |-> Forward(dut.relu, dut.x_equilibrium)[1]]

\* Mutant: the activation binaries of x are reused at x_next.
NextBinaries_Shared(beta, candidates) == candidates \cap {beta}

\* The binaries at x_next are variables of their own.
NextBinaries(beta, candidates) == candidates

\* The value of V the program assigns with the network's slack at z.
ProgramValue(dut, milp, z, x) ==
    BundleOutput(milp.relu, z)[1] - milp.relu_at_equilibrium
        + SlopeDen * dut.V_lambda * StateNorm(dut, x)

\* The feasible solutions of the program with x in X, with their objective.
DerivativeFeasible(dut, milp, X) ==
    UNION {UNION {UNION {
        {[x |-> x, gamma |-> a.gamma, x_next |-> HybridOutput(milp.system, a),
          beta |-> z.binary, beta_next |-> zn.binary,
          objVal |-> ProgramObjective(dut, x,
              ProgramValue(dut, milp, z.slack, x),
              ProgramValue(dut, milp, zn.slack, HybridOutput(milp.system, a)))] :
            zn \in {c \in BundleFeasible(milp.relu, HybridOutput(milp.system, a)) :
                       c.binary \in NextBinaries(z.binary,
                           {d.binary : d \in BundleFeasible(milp.relu,
                                           HybridOutput(milp.system, a))})}} :
        z \in BundleFeasible(milp.relu, x)} :
        a \in HybridFeasible(dut.system, milp.system, x)} :
        x \in X}

\* gurobi_model.optimize() of a maximisation: a solution of the largest
\* objective, or INFEASIBLE.
Maximise(feasible) ==
    IF feasible = {} THEN {[status |-> "INFEASIBLE"]}
    ELSE LET best == SetMax({a.objVal : a \in feasible})
         IN  {[status |-> "OPTIMAL", objVal |-> a.objVal, x |-> a.x,
               x_next |-> a.x_next] : a \in {b \in feasible : b.objVal = best}}

-----------------------------------------------------------------------------
(* Specification SpecLyap: the derivative program of a certificate is      *)
(* built and solved, then a state is fixed and the program solved again.   *)

\* Two modes split at x[1] = 0, whose maps keep some states in the box and
\* take others out of it; the same with x[1] < -1 in no mode.
LyapunovSystems ==
    {HybridSystem(<<BoxMode(<< <<1, 0>>, <<0, 1>> >>, g, <<lo, -MaxX>>, <<0, MaxX>>),
                    BoxMode(<< <<0, -1>>, <<1, 0>> >>, <<0, 0>>, <<0, -MaxX>>, <<MaxX, MaxX>>)>>) :
        g \in {<<1, 0>>, <<0, -1>>}, lo \in {-MaxX, -1}}

\* Networks with one output.
LyapunovNetworks ==
    {[kind |-> "Sequential", W1 |-> W1, b1 |-> b1, slope |-> slope,
      W2 |-> W2, b2 |-> <<1>>] :
        W1 \in {<< <<1, 0>>, <<0, 1>> >>, << <<0, -1>>, <<1, 0>> >>},
        b1 \in {<<0, 0>>, <<1, -1>>}, slope \in Slopes,
        W2 \in {<< <<-3, 1>> >>}}

\* xbar_indices=None
NoIndices == [is_none |-> TRUE, list |-> <<>>]

\* R with the xbar_indices it is used with.
StateNorms ==
    {[R |-> << <<1, 0>>, <<0, 1>> >>, xbar_indices |-> NoIndices],
     [R |-> << <<2>>, <<-1>> >>, xbar_indices |-> [is_none |-> FALSE, list |-> <<2>>]]}

LyapunovDuts ==
    {[system |-> system, relu |-> relu, x_equilibrium |-> x_equilibrium,
      V_lambda |-> V_lambda, dV_epsilon |-> dV_epsilon, R |-> R,
      eps_type |-> "ExpLower", xbar_indices |-> NoIndices] :
        system \in LyapunovSystems, relu \in LyapunovNetworks,
        x_equilibrium \in {<<-1, 1>>},
        V_lambda \in {0, 2}, dV_epsilon \in {1},
        R \in {<< <<1, 0>>, <<0, 1>> >>, << <<0, 2>>, <<1, 0>> >>}}
    \cup
    {[system |-> system, relu |-> relu, x_equilibrium |-> <<-1, 1>>,
      V_lambda |-> 2, dV_epsilon |-> 1, R |-> n.R,
      eps_type |-> eps_type, xbar_indices |-> n.xbar_indices] :
        system \in {s \in LyapunovSystems : s.modes[1].g = <<1, 0>>},
        relu \in {r \in LyapunovNetworks : r.b1 = <<1, -1>>},
        eps_type \in {"ExpUpper", "Asymp"}, n \in StateNorms}

LyapInit ==
    /\ \E dut \in LyapunovDuts :
          lyap = [pc |-> "constructed", dut |-> dut, milp |-> Idle,
                  optimum |-> Idle, x_val |-> <<>>, fixed |-> Idle]
    /\ sat = Idle
    /\ fbk = Idle
    /\ enc = Idle
    /\ hyb = Idle
    /\ clf = Idle
    /\ cbf = Idle
    /\ roa = Idle
    /\ cas = Idle
    /\ ia = Idle
    /\ buf = Idle

\* dut.lyapunov_derivative_as_milp(x_equilibrium, V_lambda, dV_epsilon,
\* ConvergenceEps.ExpLower, R=R)
CallLyapunovDerivativeAsMilp ==
    /\ lyap.pc = "constructed"
    /\ lyap' = [lyap EXCEPT !.pc = "built",
                            !.milp = LyapunovDerivativeAsMilp(lyap.dut)]
    /\ UNCHANGED <<sat, fbk, enc, hyb, clf, cbf, roa, cas, ia, buf>>

\* compute_optimal_cost_lyapunov_derivative_as_milp: the program is solved
\* with x free in the box.
OptimizeDerivative ==
    /\ lyap.pc = "built"
    /\ \E r \in Maximise(DerivativeFeasible(lyap.dut, lyap.milp, Grid)) :
          lyap' = [lyap EXCEPT !.pc = "solved", !.optimum = r]
    /\ UNCHANGED <<sat, fbk, enc, hyb, clf, cbf, roa, cas, ia, buf>>

\* The program is built again, x fixed to x_val and the program solved.
FixState ==
    /\ lyap.pc = "solved"
    /\ \E x_val \in Grid :
          \E r \in Maximise(DerivativeFeasible(lyap.dut, lyap.milp, {x_val})) :
              lyap' = [lyap EXCEPT !.pc = "fixed", !.x_val = x_val, !.fixed = r]
    /\ UNCHANGED <<sat, fbk, enc, hyb, clf, cbf, roa, cas, ia, buf>>

LyapNext == CallLyapunovDerivativeAsMilp \/ OptimizeDerivative \/ FixState

SpecLyap == LyapInit /\ [][LyapNext]_vars

-----------------------------------------------------------------------------
(* LinearSystem (control-affine): xdot = A x + B u, x_lo <= x <= x_up,     *)
(* u_lo <= u <= u_up.                                                      *)

\* system.f(x)
SystemF(system, x) == MatVec(system.A, x)

\* system.G(x), an x_dim by u_dim matrix given by its rows.
SystemG(system, x) == system.B

-----------------------------------------------------------------------------
(* The Lyapunov function with xhat_indices and xbar_indices *)

\* Mutant: the leading entries of x_equilibrium, not the selected ones.
XbarEquilibrium_Leading(x_equilibrium, indices) ==
    [k \in 1..Len(indices) |-> x_equilibrium[k]]

\* x_equilibrium[xbar_indices]
XbarEquilibrium(x_equilibrium, indices) == Select(x_equilibrium, indices)

\* lyapunov_value(x, x_equilibrium, V_lambda, R=R, xbar_indices=...,
\* xhat_indices=...): phi(x) - phi(xhat) + lambda |R (xbar - xbar*)|_1,
\* in units of 1/SlopeDen.
LyapunovValueAt(relu, x, args) ==
    LET indices == XbarIndices(Len(x), args.xbar_indices)
        xhat == Xhat(x, args.x_equilibrium, args.xhat_indices)
        y == MatVec(args.R, VecSub(Select(x, indices),
                                   XbarEquilibrium(args.x_equilibrium, indices)))
    IN  Forward(relu, x)[1] - Forward(relu, xhat)[1]
            + SlopeDen * args.V_lambda * SumSeq([i \in 1..Len(y) |-> Abs(y[i])])

-----------------------------------------------------------------------------
(* ControlLyapunov.lyapunov_derivative (control_lyapunov.py)               *)

\* Every way to pick one entry from each sequence of choices, as a sequence
\* of picks, the last position varying fastest.
RECURSIVE Combinations(_)
Combinations(choices) ==
    IF choices = <<>> THEN << <<>> >>
    ELSE LET rest == Combinations(Tail(choices))
             first == Head(choices)
         IN  [k \in 1..(Len(first) * Len(rest)) |->
                <<first[((k - 1) \div Len(rest)) + 1]>>
                    \o rest[((k - 1) % Len(rest)) + 1]]

\* The slopes a unit can take at pre-activation z: both at a kink.
UnitSlopes(z, slope) ==
    IF z > 0 THEN <<SlopeDen>> ELSE IF z < 0 THEN <<slope>> ELSE <<SlopeDen, slope>>

\* utils.relu_network_gradient(relu, x).squeeze(1): one row W2 diag(a) W1 for
\* every combination a of unit slopes, in units of 1/SlopeDen.
ReluNetworkGradient(relu, x) ==
    LET z == PreActivation(relu, x)
        patterns == Combinations([j \in 1..Len(z) |-> UnitSlopes(z[j], relu.slope)])
    IN  [p \in 1..Len(patterns) |->
            [i \in 1..Len(x) |->
                SumSeq([j \in 1..Len(z) |->
                    relu.W2[1][j] * patterns[p][j] * relu.W1[j][i]])]]

\* utils.l1_gradient(y): one row of signs for every combination of signs,
\* both signs where an entry is zero.
L1Gradient(y) ==
    Combinations([i \in 1..Len(y) |->
        IF y[i] > 0 THEN <<1>> ELSE IF y[i] < 0 THEN <<-1>> ELSE <<1, -1>>])

\* row @ M for a matrix M given by its rows.
RowTimes(row, M) ==
    [c \in 1..Len(M[1]) |-> SumSeq([r \in 1..Len(M) |-> row[r] * M[r][c]])]

\* M.repeat((n, 1)): the rows of M, n times over.
RepeatRows(M, n) == [k \in 1..(n * Len(M)) |-> M[((k - 1) % Len(M)) + 1]]

\* M.repeat((1, n)): every row of M, n times side by side.
RepeatCols(M, n) ==
    [r \in 1..Len(M) |->
        [c \in 1..(n * Len(M[r])) |-> M[r][((c - 1) % Len(M[r])) + 1]]]

\* M.view((rows, cols)): the entries of M in row-major order, cut into rows.
View(M, rows, cols) ==
    LET width == Len(M[1])
        flat(k) == M[((k - 1) \div width) + 1][((k - 1) % width) + 1]
    IN  [i \in 1..rows |-> [j \in 1..cols |-> flat((i - 1) * cols + j)]]

\* Mutant: the rows of dl1_dx tiled the way the rows of dphi_dx are.
SumOfGradients_Tiled(dphi_dx, dl1_dx) ==
    LET n == Len(dphi_dx) * Len(dl1_dx)
    IN  [k \in 1..n |-> VecAdd(RepeatRows(dphi_dx, Len(dl1_dx))[k],
                               RepeatRows(dl1_dx, Len(dphi_dx))[k])]

\* dVdx = dphi_dx.repeat((L, 1)) + dl1_dx.repeat((1, P)).view((P * L, x_dim))
SumOfGradients(dphi_dx, dl1_dx) ==
    LET P == Len(dphi_dx)
        L == Len(dl1_dx)
        tiled == RepeatRows(dphi_dx, L)
        viewed == View(RepeatCols(dl1_dx, P), P * L, Len(dphi_dx[1]))
    IN  [k \in 1..(P * L) |-> VecAdd(tiled[k], viewed[k])]

\* Mutant: the 1-norm term added, not subtracted.
VdotRow_PlusNorm(d, f, G, u_lo, u_up) ==
    LET dG == RowTimes(d, G)
    IN  2 * Dot(d, f) + Dot(dG, VecAdd(u_lo, u_up))
            + SumSeq([i \in 1..Len(dG) |-> Abs(dG[i] * (u_up[i] - u_lo[i]))])

\* One row of Vdot: d f + d G (u_lo + u_up)/2 - |d G * (u_up - u_lo)/2|_1,
\* times two, in units of 1/SlopeDen.
VdotRow(d, f, G, u_lo, u_up) ==
    LET dG == RowTimes(d, G)
    IN  2 * Dot(d, f) + Dot(dG, VecAdd(u_lo, u_up))
            - SumSeq([i \in 1..Len(dG) |-> Abs(dG[i] * (u_up[i] - u_lo[i]))])

\* The entries of a sequence, as a set.
Range(seq) == {seq[k] : k \in 1..Len(seq)}

\* lyapunov_derivative(x, x_equilibrium, V_lambda, epsilon, R=R): the
\* gradients, their sums, Vdot and min(Vdot) + epsilon V.  The value is
\* times two, in units of 1/SlopeDen^2.
LyapunovDerivative(dut, x, args) ==
    LET dphi_dx == ReluNetworkGradient(dut.lyapunov_relu, x)
        signs == L1Gradient(MatVec(args.R, VecSub(x, args.x_equilibrium)))
        dl1_dx == [j \in 1..Len(signs) |->
                      VecScale(SlopeDen * args.V_lambda, RowTimes(signs[j], args.R))]
        dVdx == SumOfGradients(dphi_dx, dl1_dx)
        G == SystemG(dut.system, x)
        Vdot == [k \in 1..Len(dVdx) |->
                    VdotRow(dVdx[k], SystemF(dut.system, x), G,
                            dut.system.u_lo, dut.system.u_up)]
        V == LyapunovValueAt(dut.lyapunov_relu, x,
                [x_equilibrium |-> args.x_equilibrium, V_lambda |-> args.V_lambda,
                 R |-> args.R, xbar_indices |-> [is_none |-> TRUE, list |-> <<>>],
                 xhat_indices |-> [is_none |-> TRUE, list |-> <<>>]])
    IN  [dphi_dx |-> dphi_dx, dl1_dx |-> dl1_dx, dVdx |-> dVdx, Vdot |-> Vdot,
         V |-> V, value |-> SlopeDen * SetMin(Range(Vdot)) + 2 * args.epsilon * V]

-----------------------------------------------------------------------------
(* Specification SpecClf: a ControlLyapunov object evaluates its Lyapunov  *)
(* function or its worst-case derivative at a state.                       *)

\* Linear systems with two states and two controls; the second control box
\* has a control with u_lo = u_up.
LinearSystems ==
    {[A |-> << <<2, 1>>, <<-1, 1>> >>, B |-> << <<1, 3>>, <<2, -1>> >>,
      x_lo |-> <<-MaxX, -MaxX>>, x_up |-> <<MaxX, MaxX>>,
      u_lo |-> box.lo, u_up |-> box.up] :
        box \in {[lo |-> <<-1, -2>>, up |-> <<1, 0>>],
                 [lo |-> <<-2, 1>>, up |-> <<3, 1>>]}}

ControlLyapunovs ==
    {[system |-> system, lyapunov_relu |-> relu] :
        system \in LinearSystems, relu \in LyapunovNetworks}

EquilibriumStates == {<<0, 0>>, <<-1, 1>>}

\* xbar_indices with a matrix R of as many columns.
XbarChoices ==
    {[xbar_indices |-> idx, R |-> R] :
        idx \in {[is_none |-> TRUE, list |-> <<>>], [is_none |-> FALSE, list |-> <<1, 2>>]},
        R \in {<< <<1, 0>>, <<0, 1>> >>, << <<1, 1>>, <<-1, 1>>, <<0, 1>> >>}}
    \cup {[xbar_indices |-> [is_none |-> FALSE, list |-> l], R |-> R] :
        l \in {<<1>>, <<2>>}, R \in {<< <<1>> >>, << <<1>>, <<-2>> >>}}

ValueArgs ==
    {[x_equilibrium |-> x_equilibrium, V_lambda |-> V_lambda, R |-> c.R,
      xbar_indices |-> c.xbar_indices, xhat_indices |-> xhat_indices] :
        x_equilibrium \in EquilibriumStates, V_lambda \in {0, 2},
        c \in XbarChoices, xhat_indices \in XhatIndices}

DerivativeArgs ==
    {[x_equilibrium |-> x_equilibrium, V_lambda |-> V_lambda, epsilon |-> epsilon,
      R |-> R] :
        x_equilibrium \in EquilibriumStates, V_lambda \in {0, 2}, epsilon \in {0, 1},
        R \in {<< <<1, 0>>, <<0, 1>> >>, << <<1, 1>>, <<-1, 1>>, <<0, 1>> >>}}

ClfInit ==
    /\ \E dut \in ControlLyapunovs :
          clf = [pc |-> "constructed", dut |-> dut, x |-> <<>>, args |-> Idle,
                 ret |-> Idle]
    /\ sat = Idle
    /\ fbk = Idle
    /\ enc = Idle
    /\ hyb = Idle
    /\ lyap = Idle
    /\ cbf = Idle
    /\ roa = Idle
    /\ cas = Idle
    /\ ia = Idle
    /\ buf = Idle

\* dut.lyapunov_value(x, x_equilibrium, V_lambda, R=R, xbar_indices=...,
\* xhat_indices=...)
CallLyapunovValue ==
    /\ clf.pc = "constructed"
    /\ \E x \in Grid, args \in ValueArgs :
          clf' = [clf EXCEPT !.pc = "value", !.x = x, !.args = args,
                    !.ret = LyapunovValueAt(clf.dut.lyapunov_relu, x, args)]
    /\ UNCHANGED <<sat, fbk, enc, hyb, lyap, cbf, roa, cas, ia, buf>>

\* dut.lyapunov_derivative(x, x_equilibrium, V_lambda, epsilon, R=R)
CallLyapunovDerivative ==
    /\ clf.pc = "constructed"
    /\ \E x \in Grid, args \in DerivativeArgs :
          clf' = [clf EXCEPT !.pc = "derivative", !.x = x, !.args = args,
                    !.ret = LyapunovDerivative(clf.dut, x, args)]
    /\ UNCHANGED <<sat, fbk, enc, hyb, lyap, cbf, roa, cas, ia, buf>>

ClfNext == CallLyapunovValue \/ CallLyapunovDerivative

SpecClf == ClfInit /\ [][ClfNext]_vars

-----------------------------------------------------------------------------
(* ControlBarrier (test_control_barrier.py) *)

\* h(x) = phi(x) - phi(x*) + c and its derivative under the best control of
\* the box.  h and hdot are in units of 1/SlopeDen, the objective of the
\* derivative program in units of 1/SlopeDen^2.

\* Mutant: the lower limit where the coefficient is non-negative.
ControlTerm_LowerLimit(coeff, lo, up) == IF coeff >= 0 THEN coeff * lo ELSE coeff * up

\* dhdx_times_G[j, i] * u_up[i] if dhdx_times_G[j, i] >= 0 else
\* dhdx_times_G[j, i] * u_lo[i]
ControlTerm(coeff, lo, up) == IF coeff >= 0 THEN coeff * up ELSE coeff * lo

\* barrier_grad with inf_norm_term=None: the subgradients of the network.
BarrierGradient(dut, x) == ReluNetworkGradient(dut.barrier_relu, x)

\* barrier_derivative(x): for every subgradient, barrier_grad @ f plus the
\* control terms.
BarrierDerivative(dut, x) ==
    LET barrier_grad == BarrierGradient(dut, x)
        f == SystemF(dut.system, x)
        G == SystemG(dut.system, x)
    IN  [j \in 1..Len(barrier_grad) |->
            LET dhdx_times_G == RowTimes(barrier_grad[j], G)
            IN  Dot(barrier_grad[j], f)
                    + SumSeq([i \in 1..Len(dhdx_times_G) |->
                          ControlTerm(dhdx_times_G[i], dut.system.u_lo[i],
                                      dut.system.u_up[i])])]

\* barrier_value(x, x_star, c)
BarrierValue(dut, x, x_star, c) ==
    Forward(dut.barrier_relu, x)[1] - Forward(dut.barrier_relu, x_star)[1]
        + SlopeDen * c

\* Mutant: the derivative enters the objective with a plus sign.
BarrierObjective_PlusDerivative(hdot, h, epsilon) == SlopeDen * hdot - epsilon * h

\* -hdot - epsilon * h
BarrierObjective(hdot, h, epsilon) == 0 - SlopeDen * hdot - epsilon * h

\* barrier_derivative_as_milp(x_star, c, epsilon) with x fixed and
\* optimised: the largest of -barrier_derivative(x) - epsilon h(x) over the
\* subgradients at x.
BarrierDerivativeAsMilp(dut, x, x_star, c, epsilon) ==
    LET hdot == BarrierDerivative(dut, x)
        h == BarrierValue(dut, x, x_star, c)
    IN  [status |-> "OPTIMAL", hdot |-> hdot, h |-> h,
         objVal |-> SetMax({BarrierObjective(hdot[j], h, epsilon) :
                               j \in 1..Len(hdot)})]

-----------------------------------------------------------------------------
(* Specification SpecCbf: a ControlBarrier object evaluates its derivative *)
(* at a state, or solves its derivative program with the state fixed.      *)

ControlBarriers ==
    {[system |-> system, barrier_relu |-> relu] :
        system \in LinearSystems, relu \in LyapunovNetworks}

CbfInit ==
    /\ \E dut \in ControlBarriers :
          cbf = [pc |-> "constructed", dut |-> dut, x |-> <<>>, args |-> Idle,
                 ret |-> Idle]
    /\ sat = Idle
    /\ fbk = Idle
    /\ enc = Idle
    /\ hyb = Idle
    /\ lyap = Idle
    /\ clf = Idle
    /\ roa = Idle
    /\ cas = Idle
    /\ ia = Idle
    /\ buf = Idle

\* dut.barrier_derivative(x, inf_norm_term=None)
CallBarrierDerivative ==
    /\ cbf.pc = "constructed"
    /\ \E x \in Grid :
          cbf' = [cbf EXCEPT !.pc = "derivative", !.x = x,
                    !.ret = BarrierDerivative(cbf.dut, x)]
    /\ UNCHANGED <<sat, fbk, enc, hyb, lyap, clf, roa, cas, ia, buf>>

\* dut.barrier_derivative_as_milp(x_star, c, epsilon), x fixed to a state
\* and the program solved.
CallBarrierDerivativeAsMilp ==
    /\ cbf.pc = "constructed"
    /\ \E x \in Grid, x_star \in EquilibriumStates, c \in {1}, epsilon \in {0, 1} :
          cbf' = [cbf EXCEPT !.pc = "solved", !.x = x,
                    !.args = [x_star |-> x_star, c |-> c, epsilon |-> epsilon],
                    !.ret = BarrierDerivativeAsMilp(cbf.dut, x, x_star, c, epsilon)]
    /\ UNCHANGED <<sat, fbk, enc, hyb, lyap, clf, roa, cas, ia, buf>>

CbfNext == CallBarrierDerivative \/ CallBarrierDerivativeAsMilp

SpecCbf == CbfInit /\ [][CbfNext]_vars

-----------------------------------------------------------------------------
(* Region of attraction of LyapunovDiscreteTimeHybridSystem                *)
(* (test_lyapunov_roa.py)                                                  *)

\* x_up_larger = -x_lo_larger: the box in which x_curr and x_next lie.
MaxLarger == 2 * MaxX + 1

\* Mutant: on a face of the box counts as inside.
StrictlyInBox_Closed(x, lo, up) == \A i \in 1..Len(x) : lo[i] <= x[i] /\ x[i] <= up[i]

\* Every coordinate strictly between the bounds.
StrictlyInBox(x, lo, up) == \A i \in 1..Len(x) : lo[i] < x[i] /\ x[i] < up[i]

\* The solutions of _construct_milp_for_roa(V_lambda, R, x_equilibrium,
\* x_lo_larger, x_up_larger, x_curr_in_box): x_curr in a mode of the system
\* and x_next its successor, one of the two in the box of the system and the
\* other not strictly inside it; the objective is V(x_curr).
ConstructMilpForRoa(dut, x_curr_in_box) ==
    UNION {{[x_curr |-> x, x_next |-> HybridOutput(MixedIntegerConstraints(dut.system), a),
             objVal |-> LyapunovValue(dut, x)] :
                a \in {b \in HybridFeasible(dut.system, MixedIntegerConstraints(dut.system), x) :
                    LET x_next == HybridOutput(MixedIntegerConstraints(dut.system), b)
                        in_box_x == IF x_curr_in_box THEN x ELSE x_next
                        out_box_x == IF x_curr_in_box THEN x_next ELSE x
                    IN  /\ InBox(x_next, <<-MaxLarger, -MaxLarger>>, <<MaxLarger, MaxLarger>>)
                        /\ InBox(in_box_x, dut.system.x_lo_all, dut.system.x_up_all)
                        /\ ~StrictlyInBox(out_box_x, dut.system.x_lo_all,
                                          dut.system.x_up_all)}} :
        x \in Grid}

\* gurobi_model.optimize() of a minimisation: a solution of the smallest
\* objective, or INFEASIBLE.
Minimise(feasible) ==
    IF feasible = {} THEN {[status |-> "INFEASIBLE"]}
    ELSE LET best == SetMin({a.objVal : a \in feasible})
         IN  {[status |-> "OPTIMAL", objVal |-> a.objVal, x_curr |-> a.x_curr,
               x_next |-> a.x_next] : a \in {b \in feasible : b.objVal = best}}

\* Mutant: an infeasible program contributes zero.
RoaContribution_Zero(r) == IF r.status = "OPTIMAL" THEN r.objVal ELSE 0

\* What a solved program contributes to rho: its optimal value, +infinity
\* when it is infeasible.
RoaContribution(r) == IF r.status = "OPTIMAL" THEN r.objVal ELSE PosInf

\* compute_region_of_attraction(V_lambda, R, x_equilibrium, None,
\* x_lo_larger, x_up_larger): both programs are solved and rho is the
\* smaller contribution.
ComputeRegionOfAttraction(dut) ==
    {Min2(RoaContribution(r1), RoaContribution(r2)) :
        r1 \in Minimise(ConstructMilpForRoa(dut, TRUE)),
        r2 \in Minimise(ConstructMilpForRoa(dut, FALSE))}

-----------------------------------------------------------------------------
(* Specification SpecRoa: rho is computed, then the two programs are       *)
(* constructed and solved one by one (test_compute_region_of_attraction3). *)

\* A contracting map and an expanding map.
RoaMaps ==
    {[A |-> << <<0, 0>>, <<0, 0>> >>, g |-> <<1, 0>>],
     [A |-> << <<2, 0>>, <<0, 2>> >>, g |-> <<0, 0>>]}

\* Two modes that share the face x[1] = 0: both contracting, both
\* expanding, or one of each.
RoaSystems ==
    {HybridSystem(<<BoxMode(m1.A, m1.g, <<-MaxX, -MaxX>>, <<0, MaxX>>),
                    BoxMode(m2.A, m2.g, <<0, -MaxX>>, <<MaxX, MaxX>>)>>) :
        m1 \in RoaMaps, m2 \in RoaMaps}

RoaDuts ==
    {[system |-> system, relu |-> relu, x_equilibrium |-> <<0, 0>>,
      V_lambda |-> V_lambda, R |-> R, xbar_indices |-> NoIndices] :
        system \in RoaSystems, relu \in LyapunovNetworks, V_lambda \in {0, 2},
        R \in {<< <<1, 0>>, <<0, 1>> >>, << <<0, 2>>, <<1, 0>> >>}}

RoaInit ==
    /\ \E dut \in RoaDuts :
          roa = [pc |-> "constructed", dut |-> dut, rho |-> 0, milp1 |-> Idle,
                 milp2 |-> Idle]
    /\ sat = Idle
    /\ fbk = Idle
    /\ enc = Idle
    /\ hyb = Idle
    /\ lyap = Idle
    /\ clf = Idle
    /\ cbf = Idle
    /\ cas = Idle
    /\ ia = Idle
    /\ buf = Idle

\* rho = dut.compute_region_of_attraction(...)
CallComputeRegionOfAttraction ==
    /\ roa.pc = "constructed"
    /\ \E rho \in ComputeRegionOfAttraction(roa.dut) :
          roa' = [roa EXCEPT !.pc = "rho", !.rho = rho]
    /\ UNCHANGED <<sat, fbk, enc, hyb, lyap, clf, cbf, cas, ia, buf>>

\* milp1 = dut._construct_milp_for_roa(..., True); optimize()
SolveMilp1 ==
    /\ roa.pc = "rho"
    /\ \E r \in Minimise(ConstructMilpForRoa(roa.dut, TRUE)) :
          roa' = [roa EXCEPT !.pc = "milp1", !.milp1 = r]
    /\ UNCHANGED <<sat, fbk, enc, hyb, lyap, clf, cbf, cas, ia, buf>>

\* milp2 = dut._construct_milp_for_roa(..., False); optimize()
SolveMilp2 ==
    /\ roa.pc = "milp1"
    /\ \E r \in Minimise(ConstructMilpForRoa(roa.dut, FALSE)) :
          roa' = [roa EXCEPT !.pc = "milp2", !.milp2 = r]
    /\ UNCHANGED <<sat, fbk, enc, hyb, lyap, clf, cbf, cas, ia, buf>>

RoaNext == CallComputeRegionOfAttraction \/ SolveMilp1 \/ SolveMilp2

SpecRoa == RoaInit /\ [][RoaNext]_vars

-----------------------------------------------------------------------------
(* add_system_constraint (control_lyapunov.py) for a LinearSystem          *)

\* mip_utils.compute_range_by_IA(W, b, l, u)
ComputeRangeByIA(W, b, l, u) ==
    [lo |-> AffineLower(W, b, l, u), up |-> AffineUpper(W, b, l, u)]

\* M.reshape((-1, )): the entries of M in row-major order.
Flatten(M) ==
    [k \in 1..(Len(M) * Len(M[1])) |->
        M[((k - 1) \div Len(M[1])) + 1][((k - 1) % Len(M[1])) + 1]]

\* Mutant: row i of B where column i is meant.
GColumn_Row(B, i) == B[i]

\* B[:, i]
GColumn(B, i) == [r \in 1..Len(B) |-> B[r][i]]

\* LinearSystem.mixed_integer_constraints(): f = A x and G[i] = B[:, i]
\* with no slack and no binary variable, the range of f by interval
\* arithmetic over the box and the range of G the entries of B.
LinearMixedIntegerConstraints(system) ==
    LET range == ComputeRangeByIA(system.A, [i \in 1..Len(system.A) |-> 0],
                                  system.x_lo, system.x_up)
    IN  [mip_cnstr_f |-> [Aout_input |-> system.A,
                          Cout |-> [i \in 1..Len(system.A) |-> 0],
                          num_slack |-> 0, num_binary |-> 0],
         mip_cnstr_G |-> [i \in 1..Len(system.B[1]) |->
                             [Cout |-> GColumn(system.B, i),
                              num_slack |-> 0, num_binary |-> 0]],
         f_lo |-> range.lo, f_up |-> range.up,
         G_flat_lo |-> Flatten(system.B), G_flat_up |-> Flatten(system.B)]

\* Mutant: the lower bound is set to x_lo whatever it was.
TightenLb_Overwrite(lb, x_lo) == x_lo

\* if x[i].lb < x_lo[i]: x[i].lb = x_lo[i]
TightenLb(lb, x_lo) == IF lb < x_lo THEN x_lo ELSE lb

\* if x[i].ub > x_up[i]: x[i].ub = x_up[i]
TightenUb(ub, x_up) == IF ub > x_up THEN x_up ELSE ub

\* Mutant: neither the constraints x_lo <= x <= x_up nor the bounds of x.
SystemBox_None(system, x) == [lb |-> x.lb, ub |-> x.ub]

\* The constraints x_lo <= x <= x_up together with the bounds of x, raised
\* to x_lo and lowered to x_up where they are outside.
SystemBox(system, x) ==
    [lb |-> [i \in 1..Len(x.lb) |-> TightenLb(x.lb[i], system.x_lo[i])],
     ub |-> [i \in 1..Len(x.ub) |-> TightenUb(x.ub[i], system.x_up[i])]]

\* add_system_constraint(milp, x, f, G): the program on x, f and G.
AddSystemConstraint(system, x) ==
    LET cnstr == LinearMixedIntegerConstraints(system)
    IN  [x |-> SystemBox(system, x),
         mip_cnstr_f |-> cnstr.mip_cnstr_f, mip_cnstr_G |-> cnstr.mip_cnstr_G,
         slack |-> [k \in 1..(cnstr.mip_cnstr_f.num_slack
                       + SumSeq([i \in 1..Len(cnstr.mip_cnstr_G) |->
                                    cnstr.mip_cnstr_G[i].num_slack])) |-> "slack"],
         binary |-> [k \in 1..(cnstr.mip_cnstr_f.num_binary
                       + SumSeq([i \in 1..Len(cnstr.mip_cnstr_G) |->
                                    cnstr.mip_cnstr_G[i].num_binary])) |-> "binary"],
         ret |-> cnstr]

\* The solutions of the program: x within its bounds, f and G their outputs.
SystemFeasible(prog) ==
    {[x |-> x,
      f |-> VecAdd(MatVec(prog.mip_cnstr_f.Aout_input, x), prog.mip_cnstr_f.Cout),
      Gt |-> [i \in 1..Len(prog.mip_cnstr_G) |-> prog.mip_cnstr_G[i].Cout]] :
        x \in {y \in Grid : InBox(y, prog.x.lb, prog.x.ub)}}

\* np.array(Gt_val).T
Transpose(M) == [r \in 1..Len(M[1]) |-> [c \in 1..Len(M) |-> M[c][r]]]

-----------------------------------------------------------------------------
(* Specification SpecCas: x is created with bounds, add_system_constraint  *)
(* is called and the program is solved (constraint_tester).                *)

CasSystems ==
    {[A |-> A, B |-> << <<1, 3>>, <<2, -1>> >>, x_lo |-> box.lo, x_up |-> box.up,
      u_lo |-> <<-1, -2>>, u_up |-> <<1, 0>>] :
        A \in {<< <<2, 1>>, <<-1, 1>> >>, << <<1, 3>>, <<2, -1>> >>},
        box \in {[lo |-> <<-2, -1>>, up |-> <<1, 2>>],
                 [lo |-> <<-1, -2>>, up |-> <<1, 1>>]}}

\* x = mip.addVars(x_dim, lb=x_val, ub=x_val), or x without bounds.
\* or x with a bound on one side of each coordinate only.
StateVariables ==
    {[lb |-> x_val, ub |-> x_val] : x_val \in Grid}
        \cup {[lb |-> <<NegInf, NegInf>>, ub |-> <<PosInf, PosInf>>]}
        \cup {[lb |-> <<0, NegInf>>, ub |-> <<PosInf, 0>>]}

CasInit ==
    /\ \E system \in CasSystems :
          cas = [pc |-> "constructed", system |-> system, x |-> Idle,
                 prog |-> Idle, sol |-> Idle]
    /\ sat = Idle
    /\ fbk = Idle
    /\ enc = Idle
    /\ hyb = Idle
    /\ lyap = Idle
    /\ clf = Idle
    /\ cbf = Idle
    /\ roa = Idle
    /\ ia = Idle
    /\ buf = Idle

\* x = mip.addVars(...)
AddVars ==
    /\ cas.pc = "constructed"
    /\ \E x \in StateVariables : cas' = [cas EXCEPT !.pc = "variables", !.x = x]
    /\ UNCHANGED <<sat, fbk, enc, hyb, lyap, clf, cbf, roa, ia, buf>>

\* add_system_constraint(mip, x, f, Gt)
CallAddSystemConstraintCas ==
    /\ cas.pc = "variables"
    /\ cas' = [cas EXCEPT !.pc = "added",
                          !.prog = AddSystemConstraint(cas.system, cas.x)]
    /\ UNCHANGED <<sat, fbk, enc, hyb, lyap, clf, cbf, roa, ia, buf>>

\* mip.gurobi_model.optimize(): any solution, or INFEASIBLE.
OptimizeCas ==
    /\ cas.pc = "added"
    /\ \E r \in (IF SystemFeasible(cas.prog) = {}
                 THEN {[status |-> "INFEASIBLE"]}
                 ELSE {[status |-> "OPTIMAL", x |-> a.x, f |-> a.f,
                        G |-> Transpose(a.Gt)] : a \in SystemFeasible(cas.prog)}) :
          cas' = [cas EXCEPT !.pc = "solved", !.sol = r]
    /\ UNCHANGED <<sat, fbk, enc, hyb, lyap, clf, cbf, roa, ia, buf>>

CasNext == AddVars \/ CallAddSystemConstraintCas \/ OptimizeCas

SpecCas == CasInit /\ [][CasNext]_vars

-----------------------------------------------------------------------------
(* Specification SpecIA: one affine layer W x + b and an input interval    *)
(* [l, u] are propagated by interval arithmetic, then the layer is         *)
(* evaluated at a point of the interval.                                   *)

\* Rows of W with entries of either sign and zero.
LayerRows == {<<1, 0>>, <<-1, 2>>, <<2, -3>>, <<-2, -1>>}

LayerWeights == {<<r1, r2>> : r1 \in LayerRows, r2 \in LayerRows}

LayerBiases == {<<0, 0>>, <<1, -2>>}

\* Input intervals with l <= u: the grid's box, a box off centre, a box
\* with an empty interior and a single point.
InputIntervals ==
    {[l |-> <<-MaxX, -MaxX>>, u |-> <<MaxX, MaxX>>],
     [l |-> <<-1, 0>>, u |-> <<2, 1>>],
     [l |-> <<0, -2>>, u |-> <<0, 2>>],
     [l |-> <<1, 1>>, u |-> <<1, 1>>]}

IAInit ==
    /\ \E W \in LayerWeights, b \in LayerBiases, box \in InputIntervals :
          ia = [pc |-> "layer", W |-> W, b |-> b, l |-> box.l, u |-> box.u,
                range |-> Idle, x |-> <<>>, y |-> <<>>]
    /\ sat = Idle
    /\ fbk = Idle
    /\ enc = Idle
    /\ hyb = Idle
    /\ lyap = Idle
    /\ clf = Idle
    /\ cbf = Idle
    /\ roa = Idle
    /\ cas = Idle
    /\ buf = Idle

\* mip_utils.compute_range_by_IA(W, b, l, u)
CallComputeRangeByIA ==
    /\ ia.pc = "layer"
    /\ ia' = [ia EXCEPT !.pc = "range",
                        !.range = ComputeRangeByIA(ia.W, ia.b, ia.l, ia.u)]
    /\ UNCHANGED <<sat, fbk, enc, hyb, lyap, clf, cbf, roa, cas, buf>>

\* The layer is evaluated at a point of the interval.
EvaluateLayer ==
    /\ ia.pc = "range"
    /\ \E x \in {y \in Grid : InBox(y, ia.l, ia.u)} :
          ia' = [ia EXCEPT !.pc = "evaluated", !.x = x,
                           !.y = VecAdd(MatVec(ia.W, x), ia.b)]
    /\ UNCHANGED <<sat, fbk, enc, hyb, lyap, clf, cbf, roa, cas, buf>>

IANext == CallComputeRangeByIA \/ EvaluateLayer

SpecIA == IAInit /\ [][IANext]_vars

-----------------------------------------------------------------------------
(* SamplesBuffer (robust_value_approx/samples_buffer.py)                   *)

\* A buffer object is [max_size, x_samples, v_labels, current_sample]; the
\* rows of x_samples and v_labels are sequences, row k of the code being
\* entry k + 1.  A call returns [obj, ret, raised].

\* self.num_samples
NumSamples(obj) == Len(obj.x_samples)

\* rows[start:, :] for start >= 0
SliceFrom(rows, start) == SubSeq(rows, start + 1, Len(rows))

\* self.x_samples[num_extra:, :]
KeepSamples(x_samples, num_extra) == SliceFrom(x_samples, num_extra)

\* Mutant: the labels are not cut when the samples are.
KeepLabels_All(v_labels, num_extra) == v_labels

\* self.v_labels[num_extra:, :]
KeepLabels(v_labels, num_extra) == SliceFrom(v_labels, num_extra)

\* Mutant: the new rows in front of the old ones.
Cat_NewFirst(rows, new_rows) == new_rows \o rows

\* torch.cat((rows, new_rows), axis=0)
Cat(rows, new_rows) == rows \o new_rows

\* add_samples(new_x_samples, new_v_labels)
AddSamples(obj, new_x_samples, new_v_labels) ==
    IF Len(new_x_samples) # Len(new_v_labels)
    THEN [obj |-> obj, ret |-> <<>>, raised |-> "AssertionError"]
    ELSE IF ~obj.max_size.is_none /\ Len(new_x_samples) > obj.max_size.value
    THEN [obj |-> obj, ret |-> <<>>, raised |-> "AssertionError"]
    ELSE LET num_new_samples == Len(new_x_samples)
             over == /\ ~obj.max_size.is_none
                     /\ NumSamples(obj) + num_new_samples > obj.max_size.value
             num_extra == obj.max_size.value - num_new_samples
             x_samples == IF over THEN KeepSamples(obj.x_samples, num_extra)
                          ELSE obj.x_samples
             v_labels == IF over THEN KeepLabels(obj.v_labels, num_extra)
                         ELSE obj.v_labels
         IN  [obj |-> [obj EXCEPT !.x_samples = Cat(x_samples, new_x_samples),
                                  !.v_labels = Cat(v_labels, new_v_labels)],
              ret |-> <<>>, raised |-> "none"]

\* Mutant: the cursor is set to the first returned index plus one.
NextCursor_AfterFirst(indices) == indices[1] + 1

\* indices[-1] + 1
NextCursor(indices) == indices[Len(indices)] + 1

\* get_next_sample_indices(num_indices).  With no index asked for,
\* indices[-1] raises; with an empty buffer numpy's integer remainder by
\* zero is zero.
GetNextSampleIndices(obj, num_indices) ==
    IF num_indices = 0
    THEN [obj |-> obj, ret |-> <<>>, raised |-> "IndexError"]
    ELSE LET arange == [k \in 1..num_indices |-> obj.current_sample + k - 1]
             indices == [k \in 1..num_indices |->
                            IF NumSamples(obj) = 0 THEN 0
                            ELSE arange[k] % NumSamples(obj)]
         IN  [obj |-> [obj EXCEPT !.current_sample = NextCursor(indices)],
              ret |-> indices, raised |-> "none"]

\* get_samples_from_indices(indices), indices not negative.
GetSamplesFromIndices(obj, indices) ==
    IF \E k \in 1..Len(indices) : indices[k] >= NumSamples(obj)
    THEN [obj |-> obj, ret |-> <<>>, raised |-> "IndexError"]
    ELSE [obj |-> obj,
          ret |-> <<[k \in 1..Len(indices) |-> obj.x_samples[indices[k] + 1]],
                    [k \in 1..Len(indices) |-> obj.v_labels[indices[k] + 1]]>>,
          raised |-> "none"]

\* The sequences of m different elements of S.
RECURSIVE Arrangements(_, _)
Arrangements(S, m) ==
    IF m = 0 THEN {<<>>}
    ELSE UNION {{<<e>> \o t : t \in Arrangements(S \ {e}, m - 1)} : e \in S}

\* get_random_sample_indices(num_indices): what np.random.choice(N,
\* min(N, num_indices), replace=False) can return.  With N = 0 it returns no
\* index or, in older numpy, raises.
GetRandomSampleIndices(obj, num_indices) ==
    IF NumSamples(obj) = 0
    THEN {[obj |-> obj, ret |-> <<>>, raised |-> "none"],
          [obj |-> obj, ret |-> <<>>, raised |-> "ValueError"]}
    ELSE {[obj |-> obj, ret |-> indices, raised |-> "none"] :
             indices \in Arrangements(0..(NumSamples(obj) - 1),
                                      Min2(NumSamples(obj), num_indices))}

\* get_random_samples(num_rand_samples)
GetRandomSamples(obj, num_rand_samples) ==
    {IF r.raised = "none" THEN GetSamplesFromIndices(r.obj, r.ret) ELSE r :
        r \in GetRandomSampleIndices(obj, num_rand_samples)}

\* get_next_samples(num_next_samples)
GetNextSamples(obj, num_next_samples) ==
    LET r == GetNextSampleIndices(obj, num_next_samples)
    IN  IF r.raised = "none"
        THEN [GetSamplesFromIndices(r.obj, r.ret) EXCEPT !.obj = r.obj]
        ELSE r

-----------------------------------------------------------------------------
(* Specification SpecBuf: a SamplesBuffer is constructed and its methods   *)
(* are called in any order.  Sample rows are numbered in the order they    *)
(* are passed in; passed[i] is the label passed with sample i.             *)

\* The largest max_size of a buffer.
MaxSize == 2

\* The number of rows passed to successful add_samples calls.
MaxAdded == 3

\* The largest batch and the largest number of indices asked for.
MaxBatch == MaxSize + 1

Labels == {0, 1}

MaxSizes ==
    {[is_none |-> TRUE, value |-> 0]}
        \cup {[is_none |-> FALSE, value |-> m] : m \in 1..MaxSize}

\* SamplesBuffer(samples_dim, labels_dim, dtype, max_size)
BufInit ==
    /\ \E max_size \in MaxSizes :
          buf = [pc |-> "constructed",
                 obj |-> [max_size |-> max_size, x_samples |-> <<>>,
                          v_labels |-> <<>>, current_sample |-> 0],
                 op |-> "__init__", args |-> <<>>, ret |-> <<>>, raised |-> "none",
                 passed |-> <<>>]
    /\ sat = Idle
    /\ fbk = Idle
    /\ enc = Idle
    /\ hyb = Idle
    /\ lyap = Idle
    /\ clf = Idle
    /\ cbf = Idle
    /\ roa = Idle
    /\ cas = Idle
    /\ ia = Idle

\* The state after a call.
AfterCall(op, args, r, passed) ==
    [pc |-> "constructed", obj |-> r.obj, op |-> op, args |-> args, ret |-> r.ret,
     raised |-> r.raised, passed |-> passed]

\* buffer.add_samples(new_x_samples, new_v_labels) with fresh sample rows.
CallAddSamples ==
    /\ buf.pc = "constructed"
    /\ \E n \in 0..MaxBatch, m \in 0..MaxBatch :
          /\ Len(buf.passed) + n <= MaxAdded
          /\ \E new_v_labels \in [1..m -> Labels] :
                LET new_x_samples == [k \in 1..n |-> Len(buf.passed) + k]
                    r == AddSamples(buf.obj, new_x_samples, new_v_labels)
                IN  buf' = AfterCall("add_samples", <<new_x_samples, new_v_labels>>, r,
                                     IF r.raised = "none"
                                     THEN buf.passed \o new_v_labels ELSE buf.passed)
    /\ UNCHANGED <<sat, fbk, enc, hyb, lyap, clf, cbf, roa, cas, ia>>

\* buffer.get_next_sample_indices(num_indices)
CallGetNextSampleIndices ==
    /\ buf.pc = "constructed"
    /\ \E num_indices \in 0..MaxBatch :
          buf' = AfterCall("get_next_sample_indices", <<num_indices>>,
                           GetNextSampleIndices(buf.obj, num_indices), buf.passed)
    /\ UNCHANGED <<sat, fbk, enc, hyb, lyap, clf, cbf, roa, cas, ia>>

\* buffer.get_next_samples(num_next_samples)
CallGetNextSamples ==
    /\ buf.pc = "constructed"
    /\ \E num_next_samples \in 0..MaxBatch :
          buf' = AfterCall("get_next_samples", <<num_next_samples>>,
                           GetNextSamples(buf.obj, num_next_samples), buf.passed)
    /\ UNCHANGED <<sat, fbk, enc, hyb, lyap, clf, cbf, roa, cas, ia>>

\* buffer.get_random_samples(num_rand_samples)
CallGetRandomSamples ==
    /\ buf.pc = "constructed"
    /\ \E num_rand_samples \in 0..2 :
          \E r \in GetRandomSamples(buf.obj, num_rand_samples) :
              buf' = AfterCall("get_random_samples", <<num_rand_samples>>, r, buf.passed)
    /\ UNCHANGED <<sat, fbk, enc, hyb, lyap, clf, cbf, roa, cas, ia>>

\* buffer.get_samples_from_indices(indices)
CallGetSamplesFromIndices ==
    /\ buf.pc = "constructed"
    /\ \E indices \in {<<i>> : i \in 0..MaxSize} \cup {<<i, 0>> : i \in 0..MaxSize} :
          buf' = AfterCall("get_samples_from_indices", <<indices>>,
                           GetSamplesFromIndices(buf.obj, indices), buf.passed)
    /\ UNCHANGED <<sat, fbk, enc, hyb, lyap, clf, cbf, roa, cas, ia>>

BufNext ==
    \/ CallAddSamples
    \/ CallGetNextSampleIndices
    \/ CallGetNextSamples
    \/ CallGetRandomSamples
    \/ CallGetSamplesFromIndices

SpecBuf == BufInit /\ [][BufNext]_vars

-----------------------------------------------------------------------------
(* Claims about _add_input_saturation_constraint, under SpecSat *)

SatReturned == sat.pc = "done" /\ sat.ret.status = "returned"
SatRaised == sat.pc = "done" /\ sat.ret.status = "raised"

\* Exactly one of the two limits of component i is infinite.
OneSided(i) ==
    IsInf(sat.u_lower_limit[i]) # IsInf(sat.u_upper_limit[i])

\* Component i is unsaturated on both sides, as the constructor documents it:
\* lower limit -infinity, upper limit +infinity.
Unlimited(i) ==
    sat.u_lower_limit[i] = NegInf /\ sat.u_upper_limit[i] = PosInf

\* C5: whenever _add_input_saturation_constraint returns, every component of
\* the returned bounds satisfies u_lower_limit <= u_lower_bound <=
\* u_upper_bound <= u_upper_limit, and the saturation of every value v in
\* [u_pre_sat_lo, u_pre_sat_up] lies in [u_lower_bound, u_upper_bound].
C5_BoundsWithinLimits ==
    SatReturned =>
        \A i \in 1..u_dim :
            /\ sat.u_lower_limit[i] <= sat.ret.u_lower_bound[i]
            /\ sat.ret.u_lower_bound[i] <= sat.ret.u_upper_bound[i]
            /\ sat.ret.u_upper_bound[i] <= sat.u_upper_limit[i]
            /\ \A v \in sat.u_pre_sat_lo[i]..sat.u_pre_sat_up[i] :
                  LET c == Saturate(v, sat.u_lower_limit[i], sat.u_upper_limit[i])
                  IN  sat.ret.u_lower_bound[i] <= c /\ c <= sat.ret.u_upper_bound[i]

\* The call returned for finite limits -1 and 1 and a pre-saturation interval
\* that sticks out on both sides, so the bounds are the limits themselves.
C5_Witness ==
    /\ SatReturned
    /\ sat.u_lower_limit[1] = -10 /\ sat.u_upper_limit[1] = 10
    /\ sat.u_pre_sat_lo[1] = -MaxPreSat /\ sat.u_pre_sat_up[1] = MaxPreSat
    /\ sat.ret.u_lower_bound[1] = -10 /\ sat.ret.u_upper_bound[1] = 10

\* C6 as claimed: with exactly one infinite limit in a component (and the
\* entry assertions met) the call succeeds and keeps the finite side as a
\* saturation constraint of that component.
C6_OneSidedSucceeds ==
    (/\ sat.pc = "done"
     /\ sat.ret.line \notin {303, 304}
     /\ \E i \in 1..u_dim : OneSided(i))
    => /\ sat.ret.status = "returned"
       /\ \A i \in 1..u_dim :
             OneSided(i) => sat.ret.constrs[i].kind = "saturation"

\* C6 as amended: with exactly one infinite limit in some component the call
\* never returns: it fails the entry assertion or the assertion of the loop,
\* and no constraint is posted for the first such component.
C6_OneSidedRaises ==
    (sat.pc = "done" /\ \E i \in 1..u_dim : OneSided(i))
    => /\ sat.ret.status = "raised"
       /\ sat.ret.line \in {303, 304, 319}
       /\ Len(sat.ret.constrs) < SetMin({i \in 1..u_dim : OneSided(i)})

\* The loop's assertion failed at a component with a finite lower limit and
\* no upper limit, after the first component had been posted.
C6_Witness ==
    /\ SatRaised
    /\ sat.ret.line = 319
    /\ sat.u_lower_limit[2] = -10 /\ sat.u_upper_limit[2] = PosInf
    /\ Len(sat.ret.constrs) = 1

-----------------------------------------------------------------------------
(* Claims about the ReLU encoding, under SpecRelu *)

EncPre(j) == Dot(enc.relu.W1[j], enc.x) + enc.relu.b1[j]
EncUnits == 1..Len(enc.relu.W1)
EncInBox == InBox(enc.x, enc.x_lo, enc.x_up)
EncSolved == enc.pc = "solved" /\ enc.sol.status = "OPTIMAL"

\* C1 as claimed: every input in the box has exactly one feasible assignment
\* of slacks and binaries, in which each binary is 1 iff the pre-activation
\* is positive, each slack is max(pre, a pre) and the output is network(x).
C1_UniqueAssignment ==
    /\ (enc.pc = "pinned" /\ EncInBox)
          => Cardinality(BundleFeasible(enc.cnstr, enc.x)) = 1
    /\ EncSolved =>
          /\ \A j \in EncUnits :
                /\ enc.sol.binary[j] = (IF EncPre(j) > 0 THEN 1 ELSE 0)
                /\ enc.sol.slack[j] = Max2(SlopeDen * EncPre(j), enc.relu.slope * EncPre(j))
          /\ BundleOutput(enc.cnstr, enc.sol.slack) = Forward(enc.relu, enc.x)

\* C1 as amended: every input in the box has a feasible assignment and all
\* of them have the same slacks; in every feasible assignment each slack is
\* max(pre, a pre), the output is network(x), and the binary of a unit whose
\* pre-activation is not zero is 1 iff that pre-activation is positive.
C1_ExactEncoding ==
    /\ (enc.pc = "pinned" /\ EncInBox)
          => Cardinality({a.slack : a \in BundleFeasible(enc.cnstr, enc.x)}) = 1
    /\ EncSolved =>
          /\ EncInBox
          /\ \A j \in EncUnits :
                /\ enc.sol.slack[j] = Max2(SlopeDen * EncPre(j), enc.relu.slope * EncPre(j))
                /\ EncPre(j) # 0 =>
                      enc.sol.binary[j] = (IF EncPre(j) > 0 THEN 1 ELSE 0)
          /\ BundleOutput(enc.cnstr, enc.sol.slack) = Forward(enc.relu, enc.x)

\* A solved program of a leaky network with one unit on its active and one
\* on its inactive piece, both spanning zero over the box.
C1_Witness ==
    /\ EncSolved
    /\ enc.relu.slope = 1
    /\ \A j \in EncUnits : enc.cnstr.units[j].kind = "spans"
    /\ EncPre(1) > 0 /\ enc.sol.binary[1] = 1
    /\ EncPre(2) < 0 /\ enc.sol.binary[2] = 0
    /\ enc.sol.slack[2] = EncPre(2)

-----------------------------------------------------------------------------
(* Claims about FeedbackSystem, under SpecFb *)

FbComputed == fbk.pc = "computed"

FbRows == 1..Len(fbk.x.rows)

FbControls == 1..u_dim

\* The pre-saturation control of row r of the state handed to compute_u.
FbPreSat(r) == U_pre_sat(fbk.fs, fbk.x.rows[r])

AgreesOnXhatIndices(r) ==
    \A i \in 1..x_dim :
        (fbk.fs.xhat_indices.is_none
            \/ \E k \in 1..Len(fbk.fs.xhat_indices.list) :
                  fbk.fs.xhat_indices.list[k] = i)
        => fbk.x.rows[r][i] = fbk.fs.x_equilibrium[i]

EquilibriumControlWithinLimits ==
    \A i \in FbControls :
        fbk.fs.u_lower_limit[i] <= fbk.fs.u_equilibrium[i]
            /\ fbk.fs.u_equilibrium[i] <= fbk.fs.u_upper_limit[i]

FbSolved == fbk.pc = "solved"

\* The control compute_u evaluates at the pinned state.
FbDirectControl == Compute_u(fbk.fs, Single(fbk.x)).rows[1]

FbSuccessors ==
    ForwardSuccessors(fbk.fs.forward_system, fbk.x, FbDirectControl)

-----------------------------------------------------------------------------
(* Claims about the hybrid-system encoding, under SpecHybrid *)

HybModes == 1..Len(hyb.system.modes)

\* The pinned state lies in the polytope of mode i.
HybContains(i) ==
    InPolytope(hyb.system.modes[i].P, hyb.system.modes[i].q, hyb.x)

\* C9: every feasible solution has a one-hot gamma; for the mode i with
\* gamma_i = 1 the state is in polytope i, slack block i is x, every other
\* block is zero and x_next = A_i x + g_i.  The program is infeasible iff x
\* is in no polytope, and when x is in several, each of them, alone, is a
\* feasible choice.
C9_ModeSelection ==
    /\ (hyb.pc = "solved" /\ hyb.sol.status = "OPTIMAL") =>
          /\ \A i \in HybModes : hyb.sol.gamma[i] \in {0, 1}
          /\ Cardinality({i \in HybModes : hyb.sol.gamma[i] = 1}) = 1
          /\ \A i \in HybModes :
                IF hyb.sol.gamma[i] = 1
                THEN /\ HybContains(i)
                     /\ hyb.sol.s[i] = hyb.x
                     /\ hyb.sol.x_next
                           = VecAdd(MatVec(hyb.system.modes[i].A, hyb.x),
                                    hyb.system.modes[i].g)
                ELSE hyb.sol.s[i] = <<0, 0>>
    /\ hyb.pc = "solved" =>
          (hyb.sol.status = "INFEASIBLE" <=> \A i \in HybModes : ~HybContains(i))
    /\ hyb.pc = "pinned" =>
          \A i \in HybModes :
              HybContains(i) <=>
                  \E a \in HybridFeasible(hyb.system, hyb.cnstr, hyb.x) :
                      \A j \in HybModes : a.gamma[j] = (IF j = i THEN 1 ELSE 0)

\* A solved program at a state other than the origin that lies in two
\* polytopes whose maps differ there, with the second of them selected.
C9_Witness ==
    /\ hyb.pc = "solved"
    /\ hyb.sol.status = "OPTIMAL"
    /\ hyb.x # <<0, 0>>
    /\ HybContains(1) /\ HybContains(2)
    /\ hyb.sol.gamma[2] = 1
    /\ hyb.sol.s[2] = hyb.x /\ hyb.sol.s[1] = <<0, 0>>
    /\ Mode(hyb.system, hyb.x) = 1
    /\ hyb.sol.x_next # VecAdd(MatVec(hyb.system.modes[1].A, hyb.x),
                               hyb.system.modes[1].g)

-----------------------------------------------------------------------------
(* Claims about the Lyapunov-derivative program, under SpecLyap *)

LyapFixed == lyap.pc = "fixed"

\* The fixed state is in a mode, so that step_forward is defined there.
LyapHasMode == Mode(lyap.dut.system, lyap.x_val) # 0

\* The successor of the fixed state is in the box.
LyapStepInBox ==
    InBox(AutonomousStepForward(lyap.dut.system, lyap.x_val),
          lyap.dut.system.x_lo_all, lyap.dut.system.x_up_all)

\* C10 as claimed: the optimum M* bounds V(step(x)) - V(x) + eps V(x) at
\* every state x of the box.
C10_BoundsEveryState ==
    (LyapFixed /\ LyapHasMode) =>
        /\ lyap.optimum.status = "OPTIMAL"
        /\ CostExpected(lyap.dut, lyap.x_val) <= lyap.optimum.objVal

\* C10: the optimum M* bounds V(step(x)) - V(x) + eps V(x) at every state x
\* of the box that is in a mode and whose successor is in the box; at such a
\* state the program with x fixed is feasible and its objective is at least
\* that value; and the objective with x fixed to any state never exceeds M*.
C10_BoundsStatesSteppingInBox ==
    LyapFixed =>
        /\ (LyapHasMode /\ LyapStepInBox) =>
              /\ lyap.optimum.status = "OPTIMAL"
              /\ lyap.fixed.status = "OPTIMAL"
              /\ CostExpected(lyap.dut, lyap.x_val) <= lyap.fixed.objVal
              /\ CostExpected(lyap.dut, lyap.x_val) <= lyap.optimum.objVal
        /\ lyap.fixed.status = "OPTIMAL" =>
              /\ lyap.optimum.status = "OPTIMAL"
              /\ lyap.fixed.objVal <= lyap.optimum.objVal

\* A fixed state, not the maximiser, in one mode only and stepping inside
\* the box, whose value is the objective of the fixed program and is
\* strictly below a positive optimum.
C10_Witness ==
    /\ LyapFixed
    /\ LyapHasMode /\ LyapStepInBox
    /\ lyap.dut.V_lambda > 0
    /\ lyap.fixed.status = "OPTIMAL"
    /\ lyap.fixed.objVal = CostExpected(lyap.dut, lyap.x_val)
    /\ lyap.x_val # lyap.optimum.x
    /\ lyap.fixed.objVal < lyap.optimum.objVal
    /\ lyap.optimum.objVal > 0

-----------------------------------------------------------------------------
(* Claims about ControlLyapunov, under SpecClf *)

\* C12: the Lyapunov function is zero at the equilibrium state, for every
\* network, lambda, R, xhat_indices and xbar_indices.
C12_ZeroAtEquilibrium ==
    (clf.pc = "value" /\ clf.x = clf.args.x_equilibrium) => clf.ret = 0

\* The value at an equilibrium that is not the origin, with lambda > 0, one
\* coordinate in xbar and another in xhat, for a network whose output at the
\* equilibrium is not zero.
C12_Witness ==
    /\ clf.pc = "value"
    /\ clf.x = clf.args.x_equilibrium
    /\ clf.x = <<-1, 1>>
    /\ clf.args.V_lambda > 0
    /\ ~clf.args.xbar_indices.is_none /\ clf.args.xbar_indices.list = <<2>>
    /\ ~clf.args.xhat_indices.is_none /\ clf.args.xhat_indices.list = <<1>>
    /\ Forward(clf.dut.lyapunov_relu, clf.x)[1] # 0
    /\ clf.ret = 0

ClfDerivative == clf.pc = "derivative"

\* The controls of the box with integer entries, and its vertices.
ClfControls ==
    {<<a, b>> : a \in clf.dut.system.u_lo[1]..clf.dut.system.u_up[1],
                b \in clf.dut.system.u_lo[2]..clf.dut.system.u_up[2]}

ClfVertices ==
    {<<a, b>> : a \in {clf.dut.system.u_lo[1], clf.dut.system.u_up[1]},
                b \in {clf.dut.system.u_lo[2], clf.dut.system.u_up[2]}}

\* d (f(x) + G(x) u) at the state of the call, times two.
ClfRate(d, u) ==
    2 * Dot(d, VecAdd(SystemF(clf.dut.system, clf.x),
                      MatVec(SystemG(clf.dut.system, clf.x), u)))

\* C13: for every gradient row d the closed form is the minimum over the
\* control box of d (f(x) + G(x) u), and a vertex of the box attains it.
C13_ClosedFormIsMinimum ==
    ClfDerivative =>
        \A k \in 1..Len(clf.ret.dVdx) :
            /\ \A u \in ClfControls : clf.ret.Vdot[k] <= ClfRate(clf.ret.dVdx[k], u)
            /\ \E u \in ClfVertices : clf.ret.Vdot[k] = ClfRate(clf.ret.dVdx[k], u)

\* A derivative whose first gradient row pulls one control to its lower and
\* the other to its upper limit, strictly below the rate at the other
\* vertices.
C13_Witness ==
    /\ ClfDerivative
    /\ clf.dut.system.u_lo = <<-1, -2>>
    /\ LET d == clf.ret.dVdx[1]
           dG == RowTimes(d, SystemG(clf.dut.system, clf.x))
       IN  /\ dG[1] > 0 /\ dG[2] < 0
           /\ clf.ret.Vdot[1] = ClfRate(d, <<-1, 0>>)
           /\ \A u \in ClfVertices \ {<<-1, 0>>} : clf.ret.Vdot[1] < ClfRate(d, u)

\* The pairs (i, j) of a network subgradient and an l1 subgradient.
ClfPairs ==
    {<<i, j>> : i \in 1..Len(clf.ret.dphi_dx), j \in 1..Len(clf.ret.dl1_dx)}

ClfPairSum(p) == VecAdd(clf.ret.dphi_dx[p[1]], clf.ret.dl1_dx[p[2]])

\* C14: dVdx has one row for every pair of a network subgradient and an l1
\* subgradient, each pair once, and the result is the minimum of the closed
\* form over these pairs plus epsilon V(x).
C14_MinkowskiSum ==
    ClfDerivative =>
        /\ clf.ret.dphi_dx = ReluNetworkGradient(clf.dut.lyapunov_relu, clf.x)
        /\ Len(clf.ret.dVdx) = Len(clf.ret.dphi_dx) * Len(clf.ret.dl1_dx)
        /\ \A q \in ClfPairs :
              Cardinality({k \in 1..Len(clf.ret.dVdx) : clf.ret.dVdx[k] = ClfPairSum(q)})
                  = Cardinality({p \in ClfPairs : ClfPairSum(p) = ClfPairSum(q)})
        /\ clf.ret.value =
              SlopeDen * SetMin({VdotRow(ClfPairSum(p), SystemF(clf.dut.system, clf.x),
                                         SystemG(clf.dut.system, clf.x),
                                         clf.dut.system.u_lo, clf.dut.system.u_up) :
                                    p \in ClfPairs})
                  + 2 * clf.args.epsilon * clf.ret.V

\* A derivative at a state on a kink of the network and on a kink of the l1
\* term, with pairwise different sums, epsilon V(x) not zero, and the
\* minimum attained by no row of the first network subgradient.
C14_Witness ==
    /\ ClfDerivative
    /\ Len(clf.ret.dphi_dx) = 2
    /\ Len(clf.ret.dl1_dx) = 2
    /\ Cardinality({ClfPairSum(p) : p \in ClfPairs}) = 4
    /\ clf.args.epsilon * clf.ret.V # 0
    /\ \A j \in 1..2 :
          SlopeDen * VdotRow(ClfPairSum(<<1, j>>), SystemF(clf.dut.system, clf.x),
                             SystemG(clf.dut.system, clf.x),
                             clf.dut.system.u_lo, clf.dut.system.u_up)
              + 2 * clf.args.epsilon * clf.ret.V > clf.ret.value

-----------------------------------------------------------------------------
(* Claims about the objective of the derivative program, under SpecLyap *)

\* The successors x can take in the program: the map of a mode holding x.
LyapSuccessors ==
    {VecAdd(MatVec(lyap.dut.system.modes[i].A, lyap.x_val), lyap.dut.system.modes[i].g) :
        i \in {j \in 1..Len(lyap.dut.system.modes) :
                  InPolytope(lyap.dut.system.modes[j].P, lyap.dut.system.modes[j].q,
                             lyap.x_val)}}

\* |R (xbar - xbar*)|_1 at the fixed state.
LyapFixedNorm ==
    LET indices == IF lyap.dut.xbar_indices.is_none THEN <<1, 2>>
                   ELSE lyap.dut.xbar_indices.list
        y == MatVec(lyap.dut.R,
                    [k \in 1..Len(indices) |->
                        lyap.x_val[indices[k]] - lyap.dut.x_equilibrium[indices[k]]])
    IN  SumSeq([i \in 1..Len(y) |-> Abs(y[i])])

\* V(x_next) - V(x) of the solution of the fixed program, in 1/SlopeDen^2.
LyapFixedDecrease ==
    SlopeDen * (LyapunovValue(lyap.dut, lyap.fixed.x_next)
                    - LyapunovValue(lyap.dut, lyap.x_val))

\* C11: with x pinned to a value, x_next of the solved program is the
\* successor of x under a mode that holds x, and the objective value is
\* V(x_next) - V(x) + eps V(x) for ExpLower, the negation of that for
\* ExpUpper, and V(x_next) - V(x) + eps |R (xbar - xbar*)|_1 for Asymp,
\* each evaluated directly at x and x_next; where x is in one mode only
\* this is cost_expected at x.
C11_ObjectiveByRegime ==
    (LyapFixed /\ lyap.fixed.status = "OPTIMAL") =>
        /\ lyap.fixed.x_next \in LyapSuccessors
        /\ lyap.dut.eps_type = "ExpLower" =>
              lyap.fixed.objVal = LyapFixedDecrease
                  + lyap.dut.dV_epsilon * LyapunovValue(lyap.dut, lyap.x_val)
        /\ lyap.dut.eps_type = "ExpUpper" =>
              lyap.fixed.objVal = -(LyapFixedDecrease
                  + lyap.dut.dV_epsilon * LyapunovValue(lyap.dut, lyap.x_val))
        /\ lyap.dut.eps_type = "Asymp" =>
              lyap.fixed.objVal = LyapFixedDecrease
                  + lyap.dut.dV_epsilon * SlopeDen * LyapFixedNorm
        /\ Cardinality(LyapSuccessors) = 1 =>
              lyap.fixed.objVal = CostExpected(lyap.dut, lyap.x_val)

\* An Asymp program with xbar a strict part of x, solved at a fixed state
\* where eps |R (xbar - xbar*)|_1 and eps V(x) differ and the decrease is
\* not zero, so that the three objectives are three different numbers.
C11_Witness ==
    /\ LyapFixed
    /\ lyap.fixed.status = "OPTIMAL"
    /\ lyap.dut.eps_type = "Asymp"
    /\ ~lyap.dut.xbar_indices.is_none
    /\ LyapFixedNorm > 0
    /\ SlopeDen * LyapFixedNorm # LyapunovValue(lyap.dut, lyap.x_val)
    /\ LyapunovValue(lyap.dut, lyap.x_val) # 0
    /\ LyapFixedDecrease + lyap.dut.dV_epsilon * LyapunovValue(lyap.dut, lyap.x_val) # 0
    /\ lyap.fixed.objVal = LyapFixedDecrease
           + lyap.dut.dV_epsilon * SlopeDen * LyapFixedNorm

-----------------------------------------------------------------------------
(* Claims about ControlBarrier, under SpecCbf *)

\* The controls of the box with integer entries, and its vertices.
CbfControls ==
    {<<a, b>> : a \in cbf.dut.system.u_lo[1]..cbf.dut.system.u_up[1],
                b \in cbf.dut.system.u_lo[2]..cbf.dut.system.u_up[2]}

CbfVertices ==
    {<<a, b>> : a \in {cbf.dut.system.u_lo[1], cbf.dut.system.u_up[1]},
                b \in {cbf.dut.system.u_lo[2], cbf.dut.system.u_up[2]}}

\* g (f(x) + G(x) u) at the state of the call.
CbfRate(g, u) ==
    Dot(g, VecAdd(SystemF(cbf.dut.system, cbf.x),
                  MatVec(SystemG(cbf.dut.system, cbf.x), u)))

\* The subgradients of h at the state of the call.
CbfSubgradients == ReluNetworkGradient(cbf.dut.barrier_relu, cbf.x)

\* C15: barrier_derivative(x) has one value per subgradient g of h at x,
\* g f(x) plus for every control i the term (g G(x))_i u_up[i] where
\* (g G(x))_i >= 0 and (g G(x))_i u_lo[i] otherwise, and that value is the
\* maximum over the control box of g (f(x) + G(x) u).
C15_MaximumPerSubgradient ==
    cbf.pc = "derivative" =>
        /\ Len(cbf.ret) = Len(CbfSubgradients)
        /\ \A j \in 1..Len(cbf.ret) :
              LET g == CbfSubgradients[j]
                  gG == [i \in 1..u_dim |->
                            g[1] * cbf.dut.system.B[1][i] + g[2] * cbf.dut.system.B[2][i]]
                  term(i) == IF gG[i] >= 0 THEN gG[i] * cbf.dut.system.u_up[i]
                             ELSE gG[i] * cbf.dut.system.u_lo[i]
              IN  /\ cbf.ret[j] = Dot(g, SystemF(cbf.dut.system, cbf.x)) + term(1) + term(2)
                  /\ \A u \in CbfControls : cbf.ret[j] >= CbfRate(g, u)
                  /\ \E u \in CbfVertices : cbf.ret[j] = CbfRate(g, u)

\* A derivative at a kink of the network, with two subgradients of
\* different values; the first takes one control at its upper and the
\* other at its lower limit, strictly above the rate at the other vertices.
C15_Witness ==
    /\ cbf.pc = "derivative"
    /\ cbf.dut.system.u_lo = <<-1, -2>>
    /\ Len(cbf.ret) = 2
    /\ cbf.ret[1] # cbf.ret[2]
    /\ LET g == CbfSubgradients[1]
           gG == RowTimes(g, SystemG(cbf.dut.system, cbf.x))
       IN  /\ gG[1] > 0 /\ gG[2] < 0
           /\ cbf.ret[1] = CbfRate(g, <<1, -2>>)
           /\ \A u \in CbfVertices \ {<<1, -2>>} : cbf.ret[1] > CbfRate(g, u)

\* The objective of the derivative program for subgradient j with the rate
\* of control u: -g (f + G u) - epsilon h.
CbfViolation(j, u) ==
    0 - SlopeDen * CbfRate(CbfSubgradients[j], u)
        - cbf.args.epsilon * BarrierValue(cbf.dut, cbf.x, cbf.args.x_star, cbf.args.c)

\* C16 as claimed: the derivative in the condition hdot >= -epsilon h is
\* the minimum over the control box of dh/dx (f(x) + G(x) u).
C16_DerivativeIsMinimum ==
    cbf.pc = "solved" =>
        cbf.ret.objVal =
            SetMax({SetMax({CbfViolation(j, u) : u \in CbfControls}) :
                       j \in 1..Len(CbfSubgradients)})

\* C16: the derivative in the condition hdot >= -epsilon h is the maximum
\* over the control box of dh/dx (f(x) + G(x) u): the objective of the
\* derivative program at x is -max_u dh/dx (f + G u) - epsilon h(x), the
\* largest such value over the subgradients at x.
C16_DerivativeIsMaximum ==
    cbf.pc = "solved" =>
        /\ cbf.ret.h = BarrierValue(cbf.dut, cbf.x, cbf.args.x_star, cbf.args.c)
        /\ cbf.ret.objVal =
              SetMax({SetMin({CbfViolation(j, u) : u \in CbfControls}) :
                         j \in 1..Len(CbfSubgradients)})
        /\ \A j \in 1..Len(CbfSubgradients) :
              \E u \in CbfVertices : CbfViolation(j, u) <= cbf.ret.objVal

\* A solved program with epsilon h(x) not zero, at a state with one
\* subgradient whose rate depends on the control, so that the maximum and
\* the minimum over the box differ; the objective is that of the maximum.
C16_Witness ==
    /\ cbf.pc = "solved"
    /\ cbf.args.epsilon * cbf.ret.h # 0
    /\ Len(CbfSubgradients) = 1
    /\ cbf.ret.objVal = SetMin({CbfViolation(1, u) : u \in CbfControls})
    /\ cbf.ret.objVal < SetMax({CbfViolation(1, u) : u \in CbfControls})
    /\ cbf.ret.objVal > 0

-----------------------------------------------------------------------------
(* Claims about compute_region_of_attraction, under SpecRoa *)

-----------------------------------------------------------------------------
(* Claims about add_system_constraint and LinearSystem, under SpecCas *)

\* x was created pinned to a value.
CasPinned == cas.x.lb = cas.x.ub

\* C18: with x pinned to a value outside [x_lo, x_up] in some coordinate
\* the program is infeasible, a status and not an exception; with x pinned
\* inside the box it is feasible and f and G are system.f(x) and
\* system.G(x).
C18_InfeasibleOutsideBox ==
    (cas.pc = "solved" /\ CasPinned) =>
        /\ cas.sol.status \in {"OPTIMAL", "INFEASIBLE"}
        /\ (\E i \in 1..x_dim : cas.x.lb[i] < cas.system.x_lo[i]
                                   \/ cas.x.lb[i] > cas.system.x_up[i])
              => cas.sol.status = "INFEASIBLE"
        /\ (\A i \in 1..x_dim : cas.system.x_lo[i] <= cas.x.lb[i]
                                   /\ cas.x.lb[i] <= cas.system.x_up[i])
              => /\ cas.sol.status = "OPTIMAL"
                 /\ cas.sol.x = cas.x.lb
                 /\ cas.sol.f = SystemF(cas.system, cas.x.lb)
                 /\ cas.sol.G = SystemG(cas.system, cas.x.lb)

\* x pinned to a value above x_up in one coordinate only, the other
\* strictly inside the box: the program is infeasible.
C18_Witness ==
    /\ cas.pc = "solved"
    /\ CasPinned
    /\ cas.x.lb[1] > cas.system.x_up[1]
    /\ cas.system.x_lo[2] < cas.x.lb[2] /\ cas.x.lb[2] < cas.system.x_up[2]
    /\ cas.sol.status = "INFEASIBLE"

\* The range of row i of A x over the box, entry by entry.
CasRowLower(i) ==
    SumSeq([j \in 1..x_dim |->
        Min2(cas.system.A[i][j] * cas.system.x_lo[j],
             cas.system.A[i][j] * cas.system.x_up[j])])

CasRowUpper(i) ==
    SumSeq([j \in 1..x_dim |->
        Max2(cas.system.A[i][j] * cas.system.x_lo[j],
             cas.system.A[i][j] * cas.system.x_up[j])])

\* C19: the encoding of a linear system (A, B) has no slack and no binary
\* variable; its bounds of f are the interval-arithmetic bounds of A x over
\* the box and its bounds of G the entries of B; in every solution f = A x
\* and G = B.
C19_LinearEncoding ==
    cas.pc \in {"added", "solved"} =>
        /\ cas.prog.slack = <<>>
        /\ cas.prog.binary = <<>>
        /\ \A i \in 1..x_dim :
              /\ cas.prog.ret.f_lo[i] = CasRowLower(i)
              /\ cas.prog.ret.f_up[i] = CasRowUpper(i)
        /\ cas.prog.ret.G_flat_lo = cas.prog.ret.G_flat_up
        /\ \A r \in 1..x_dim : \A c \in 1..u_dim :
              cas.prog.ret.G_flat_lo[(r - 1) * u_dim + c] = cas.system.B[r][c]
        /\ (cas.pc = "solved" /\ cas.sol.status = "OPTIMAL") =>
              /\ \A i \in 1..x_dim :
                    /\ cas.sol.f[i] = cas.system.A[i][1] * cas.sol.x[1]
                                         + cas.system.A[i][2] * cas.sol.x[2]
                    /\ cas.prog.ret.f_lo[i] <= cas.sol.f[i]
                    /\ cas.sol.f[i] <= cas.prog.ret.f_up[i]
              /\ cas.sol.G = cas.system.B

\* A = [[2, 1], [-1, 1]] with x pinned to [1, 2]: f = [4, 1], G = B is not
\* symmetric, and the lower bound of the second row of f takes x_up for the
\* negative entry of A.
C19_Witness ==
    /\ cas.pc = "solved"
    /\ cas.system.A = << <<2, 1>>, <<-1, 1>> >>
    /\ cas.x.lb = <<1, 2>> /\ cas.x.ub = <<1, 2>>
    /\ cas.sol.status = "OPTIMAL"
    /\ cas.sol.f = <<4, 1>>
    /\ cas.sol.G = << <<1, 3>>, <<2, -1>> >>
    /\ cas.prog.ret.f_lo[2] = -cas.system.x_up[1] + cas.system.x_lo[2]
    /\ cas.prog.slack = <<>> /\ cas.prog.binary = <<>>

-----------------------------------------------------------------------------
(* Claims about interval arithmetic, under SpecIA *)

\* The positive and the negative part of an entry of W.
IAPositive(w) == IF w > 0 THEN w ELSE 0

IANegative(w) == IF w < 0 THEN w ELSE 0

\* C20: for l <= u the propagated interval is
\* [W+ l + W- u + b, W+ u + W- l + b], its lower bound is never above its
\* upper bound, and W x + b lies in it for every x in [l, u].
C20_IntervalIsSound ==
    ia.pc \in {"range", "evaluated"} =>
        /\ \A j \in 1..Len(ia.W) :
              /\ ia.range.lo[j] =
                    SumSeq([i \in 1..Len(ia.l) |->
                        IAPositive(ia.W[j][i]) * ia.l[i]
                            + IANegative(ia.W[j][i]) * ia.u[i]]) + ia.b[j]
              /\ ia.range.up[j] =
                    SumSeq([i \in 1..Len(ia.l) |->
                        IAPositive(ia.W[j][i]) * ia.u[i]
                            + IANegative(ia.W[j][i]) * ia.l[i]]) + ia.b[j]
              /\ ia.range.lo[j] <= ia.range.up[j]
        /\ ia.pc = "evaluated" =>
              \A j \in 1..Len(ia.W) :
                  ia.range.lo[j] <= ia.y[j] /\ ia.y[j] <= ia.range.up[j]

\* A layer with a row of mixed signs and a bias, evaluated at the vertex
\* of a box with l < u where that row attains its lower bound, while
\* W l + b is strictly above that bound.
C20_Witness ==
    /\ ia.pc = "evaluated"
    /\ ia.W[1] = <<2, -3>>
    /\ ia.b # <<0, 0>>
    /\ ia.l[1] < ia.u[1] /\ ia.l[2] < ia.u[2]
    /\ ia.x = <<ia.l[1], ia.u[2]>>
    /\ ia.y[1] = ia.range.lo[1]
    /\ ia.range.lo[1] < ia.range.up[1]
    /\ 2 * ia.l[1] - 3 * ia.l[2] + ia.b[1] > ia.range.lo[1]

-----------------------------------------------------------------------------
(* Claims about SamplesBuffer, under SpecBuf *)

\* C24 as claimed: a buffer created with max_size = M never holds more than
\* M samples, whatever add_samples calls succeeded.
C24_NeverExceedsMaxSize ==
    (buf.pc = "constructed" /\ ~buf.obj.max_size.is_none) =>
        NumSamples(buf.obj) <= buf.obj.max_size.value

\* The step is a successful add_samples of n rows to a buffer of k rows.
BufAdded == buf'.op = "add_samples" /\ buf'.raised = "none"

\* k + n > max_size at that step.
BufOverflow ==
    /\ ~buf.obj.max_size.is_none
    /\ Len(buf.obj.x_samples) + Len(buf'.args[1]) > buf.obj.max_size.value

\* C25 as claimed: when k + n > max_size, add_samples discards the
\* k + n - max_size oldest rows and no more; the buffer then holds max_size
\* rows, the max_size - n most recent old rows followed by the n new rows.
C25_EvictsOldestOnly ==
    [][(BufAdded /\ BufOverflow) =>
          LET k == Len(buf.obj.x_samples)
              n == Len(buf'.args[1])
              M == buf.obj.max_size.value
          IN  /\ Len(buf'.obj.x_samples) = M
              /\ buf'.obj.x_samples =
                    SubSeq(buf.obj.x_samples, k + n - M + 1, k) \o buf'.args[1]
              /\ buf'.obj.v_labels =
                    SubSeq(buf.obj.v_labels, k + n - M + 1, k) \o buf'.args[2]]_vars

\* C26: x_samples and v_labels always have the same number of rows and row
\* k of v_labels is the label passed in with row k of x_samples; an
\* add_samples call whose row counts differ or whose batch is larger than
\* max_size raises and leaves the buffer as it was.
C26_RowsStayPaired ==
    [][/\ Len(buf'.obj.x_samples) = Len(buf'.obj.v_labels)
       /\ \A k \in 1..Len(buf'.obj.x_samples) :
             /\ buf'.obj.x_samples[k] \in 1..Len(buf'.passed)
             /\ buf'.obj.v_labels[k] = buf'.passed[buf'.obj.x_samples[k]]
       /\ (/\ buf'.op = "add_samples"
           /\ \/ Len(buf'.args[1]) # Len(buf'.args[2])
              \/ /\ ~buf.obj.max_size.is_none
                 /\ Len(buf'.args[1]) > buf.obj.max_size.value)
             => /\ buf'.raised = "AssertionError"
                /\ buf'.obj = buf.obj]_vars

\* A buffer after an add_samples that cut old rows and kept one: its first
\* row is not the first sample passed in, and its labels are not all the
\* same.
C26_Witness ==
    /\ buf.pc = "constructed"
    /\ buf.op = "add_samples" /\ buf.raised = "none"
    /\ Len(buf.obj.x_samples) = 2
    /\ Len(buf.args[1]) = 1
    /\ Len(buf.passed) = 3
    /\ buf.obj.x_samples = <<2, 3>>
    /\ buf.obj.v_labels[1] # buf.obj.v_labels[2]
    /\ buf.passed[1] # buf.passed[2]

\* The step is a get_next_sample_indices or get_next_samples call for at
\* least one index on a buffer that is not empty.
BufNextCall ==
    /\ buf'.op \in {"get_next_sample_indices", "get_next_samples"}
    /\ buf'.args[1] >= 1
    /\ Len(buf.obj.x_samples) >= 1

\* The indices of that call: (c + k) mod N for k = 0..num_indices - 1.
BufNextIndices ==
    [k \in 1..buf'.args[1] |->
        (buf.obj.current_sample + k - 1) % Len(buf.obj.x_samples)]

\* C27: on a buffer with N >= 1 rows and num_indices >= 1 the call returns
\* the indices (c + k) mod N, k = 0..num_indices - 1, all in [0, N), and
\* sets the cursor to the last of them plus one; a call that follows
\* another starts at the row after the one the earlier call ended with, so
\* that the rows are visited cyclically in storage order.
C27_CyclicTraversal ==
    [][BufNextCall =>
          /\ buf'.raised = "none"
          /\ \A k \in 1..buf'.args[1] :
                BufNextIndices[k] >= 0 /\ BufNextIndices[k] < Len(buf.obj.x_samples)
          /\ \A k \in 1..(buf'.args[1] - 1) :
                BufNextIndices[k + 1] = (BufNextIndices[k] + 1) % Len(buf.obj.x_samples)
          /\ buf'.op = "get_next_sample_indices" => buf'.ret = BufNextIndices
          /\ buf'.op = "get_next_samples" =>
                buf'.ret = <<[k \in 1..buf'.args[1] |->
                                 buf.obj.x_samples[BufNextIndices[k] + 1]],
                             [k \in 1..buf'.args[1] |->
                                 buf.obj.v_labels[BufNextIndices[k] + 1]]>>
          /\ buf'.obj.current_sample = BufNextIndices[buf'.args[1]] + 1
          /\ buf'.obj.x_samples = buf.obj.x_samples
          /\ (buf.op = "get_next_sample_indices" /\ buf.raised = "none") =>
                BufNextIndices[1] =
                    (buf.ret[Len(buf.ret)] + 1) % Len(buf.obj.x_samples)]_vars

\* Two indices returned from a buffer of three rows, wrapping from the
\* last row to the first, the cursor left at 1.
C27_Witness ==
    /\ buf.pc = "constructed"
    /\ buf.op = "get_next_sample_indices" /\ buf.raised = "none"
    /\ Len(buf.obj.x_samples) = 3
    /\ buf.ret = <<2, 0>>
    /\ buf.obj.current_sample = 1

\* C28: an add_samples that does not overflow (max_size is None or
\* k + n <= max_size) leaves every stored row at its index, appends the new
\* rows in the order given and leaves the cursor; get_random_samples and
\* get_samples_from_indices change neither the rows nor the cursor.
C28_AppendKeepsRows ==
    [][/\ (BufAdded /\ ~BufOverflow) =>
              /\ buf'.obj.x_samples = buf.obj.x_samples \o buf'.args[1]
              /\ buf'.obj.v_labels = buf.obj.v_labels \o buf'.args[2]
              /\ \A k \in 1..Len(buf.obj.x_samples) :
                    /\ buf'.obj.x_samples[k] = buf.obj.x_samples[k]
                    /\ buf'.obj.v_labels[k] = buf.obj.v_labels[k]
              /\ buf'.obj.current_sample = buf.obj.current_sample
       /\ buf'.op \in {"get_random_samples", "get_samples_from_indices"} =>
              /\ buf'.obj.x_samples = buf.obj.x_samples
              /\ buf'.obj.v_labels = buf.obj.v_labels
              /\ buf'.obj.current_sample = buf.obj.current_sample]_vars

\* A buffer with a max_size, a cursor that has moved and one row stored,
\* after one more row was added without overflow.
C28_Witness ==
    /\ buf.pc = "constructed"
    /\ buf.op = "add_samples" /\ buf.raised = "none"
    /\ ~buf.obj.max_size.is_none
    /\ buf.obj.x_samples = <<1, 2>>
    /\ buf.args[1] = <<2>>
    /\ buf.obj.v_labels = <<0, 1>>
    /\ buf.obj.current_sample = 1

-----------------------------------------------------------------------------
(* Claim about the bounds of x after add_system_constraint, under SpecCas *)

\* C30: add_system_constraint only tightens the bounds of x: afterwards
\* the lower bound of x[i] is the larger of its previous lower bound and
\* x_lo[i] and the upper bound the smaller of its previous upper bound and
\* x_up[i]; a bound that was already tighter than the system's is left as
\* it was.
C30_BoundsOnlyTighten ==
    cas.pc \in {"added", "solved"} =>
        \A i \in 1..x_dim :
            /\ cas.prog.x.lb[i] >= cas.x.lb[i]
            /\ cas.prog.x.lb[i] >= cas.system.x_lo[i]
            /\ cas.prog.x.lb[i] \in {cas.x.lb[i], cas.system.x_lo[i]}
            /\ cas.prog.x.ub[i] <= cas.x.ub[i]
            /\ cas.prog.x.ub[i] <= cas.system.x_up[i]
            /\ cas.prog.x.ub[i] \in {cas.x.ub[i], cas.system.x_up[i]}
            /\ cas.x.lb[i] >= cas.system.x_lo[i] => cas.prog.x.lb[i] = cas.x.lb[i]
            /\ cas.x.ub[i] <= cas.system.x_up[i] => cas.prog.x.ub[i] = cas.x.ub[i]

\* x[1] had the lower bound 0, tighter than x_lo[1], and no upper bound;
\* x[2] had the upper bound 0, tighter than x_up[2], and no lower bound.
\* The tighter bounds stay and the missing ones become the system's.
C30_Witness ==
    /\ cas.pc = "added"
    /\ cas.x.lb = <<0, NegInf>> /\ cas.x.ub = <<PosInf, 0>>
    /\ cas.system.x_lo[1] < 0 /\ cas.system.x_up[2] > 0
    /\ cas.prog.x.lb = <<0, cas.system.x_lo[2]>>
    /\ cas.prog.x.ub = <<cas.system.x_up[1], 0>>

-----------------------------------------------------------------------------
(* Claims about the constructor and about parameter updates, under         *)
(* SpecTrain                                                               *)

\* The controller is a network and its program has been built.
TrainBuilt ==
    /\ fbk.pc \in {"built", "solved"}
    /\ fbk.fs.controller_network.kind = "Sequential"

C22_UnknownControllerRaises ==
    [][/\ fbk.pc = "start" =>
             /\ fbk'.args.controller_network.kind \notin {"Sequential", "Linear"}
                   => /\ fbk'.pc = "raised"
                      /\ fbk'.raised = "Exception"
                      /\ fbk'.fs = Idle
             /\ fbk'.raised = "Exception"
                   => fbk'.args.controller_network.kind \notin {"Sequential", "Linear"}
             /\ fbk'.pc = "constructed"
                   => fbk'.fs.controller_network = fbk'.args.controller_network
       /\ fbk.pc = "raised" => fbk' = fbk]_vars

\* A constructor call with a ReLU module as the controller has raised.
C22_Witness ==
    /\ fbk.pc = "raised"
    /\ fbk.args.controller_network.kind = "ReLU"
    /\ fbk.raised = "Exception"
    /\ fbk.fs = Idle

-----------------------------------------------------------------------------
(* Claims about _construct_milp_for_roa, under SpecRoa *)

\* The pairs (x_curr, x_next) of the system: x_curr in the polytope of a
\* mode, x_next its image under that mode's map, within the larger box.
RoaSteps ==
    {<<x, VecAdd(MatVec(roa.dut.system.modes[i].A, x), roa.dut.system.modes[i].g)>> :
        x \in Grid,
        i \in 1..Len(roa.dut.system.modes)} \cap
    {p \in Grid \X {<<a, b>> : a \in -MaxLarger..MaxLarger, b \in -MaxLarger..MaxLarger} :
        \E i \in 1..Len(roa.dut.system.modes) :
            /\ InPolytope(roa.dut.system.modes[i].P, roa.dut.system.modes[i].q, p[1])
            /\ p[2] = VecAdd(MatVec(roa.dut.system.modes[i].A, p[1]),
                             roa.dut.system.modes[i].g)}

\* x satisfies all 2 dim bounds of the box of the system.
RoaWithin(x) ==
    \A i \in 1..x_dim :
        roa.dut.system.x_lo_all[i] <= x[i] /\ x[i] <= roa.dut.system.x_up_all[i]

\* x lies on or beyond at least one of the 2 dim bounds.
RoaOnOrBeyond(x) ==
    \E i \in 1..x_dim :
        x[i] <= roa.dut.system.x_lo_all[i] \/ x[i] >= roa.dut.system.x_up_all[i]

\* x violates at least one of the 2 dim bounds.
RoaBeyond(x) ==
    \E i \in 1..x_dim :
        x[i] < roa.dut.system.x_lo_all[i] \/ x[i] > roa.dut.system.x_up_all[i]

\* The designated and the other point of a solution of a program.
RoaInPoint(r, x_curr_in_box) == IF x_curr_in_box THEN r.x_curr ELSE r.x_next

RoaOutPoint(r, x_curr_in_box) == IF x_curr_in_box THEN r.x_next ELSE r.x_curr

\* Every mode maps the whole box to one point strictly inside it.
RoaContracting ==
    \A i \in 1..Len(roa.dut.system.modes) :
        /\ roa.dut.system.modes[i].A = << <<0, 0>>, <<0, 0>> >>
        /\ StrictlyInBox(roa.dut.system.modes[i].g, roa.dut.system.x_lo_all,
                         roa.dut.system.x_up_all)

\* Every mode doubles the state.
RoaExpanding ==
    \A i \in 1..Len(roa.dut.system.modes) :
        /\ roa.dut.system.modes[i].A = << <<2, 0>>, <<0, 2>> >>
        /\ roa.dut.system.modes[i].g = <<0, 0>>

\* The program with the given designation has been solved with result r;
\* the other point is beyond a face of the box (strictly), or on or beyond
\* one.
RoaProgram(r, x_curr_in_box, strictly) ==
    LET outside(x) == IF strictly THEN RoaBeyond(x) ELSE RoaOnOrBeyond(x)
    IN
    /\ r.status = "OPTIMAL" <=>
          \E p \in RoaSteps :
              /\ RoaWithin(IF x_curr_in_box THEN p[1] ELSE p[2])
              /\ outside(IF x_curr_in_box THEN p[2] ELSE p[1])
    /\ r.status = "OPTIMAL" =>
          /\ <<r.x_curr, r.x_next>> \in RoaSteps
          /\ RoaWithin(RoaInPoint(r, x_curr_in_box))
          /\ outside(RoaOutPoint(r, x_curr_in_box))
          /\ r.objVal = LyapunovValue(roa.dut, r.x_curr)

\* C29 as claimed: a program is feasible exactly when some step has the
\* designated point in the box and the other outside; in a solution the
\* in-box point satisfies all 2 dim bounds, the other point violates at
\* least one, and the objective is V(x_curr).
C29_OutsideViolatesBound ==
    /\ roa.pc \in {"milp1", "milp2"} => RoaProgram(roa.milp1, TRUE, TRUE)
    /\ roa.pc = "milp2" => RoaProgram(roa.milp2, FALSE, TRUE)

\* C29, amended: a program is feasible exactly when some step has the
\* designated point in the box and the other on or beyond a face of it; in
\* a solution the in-box point satisfies all 2 dim bounds, the other point
\* lies on or beyond at least one, and the objective is V(x_curr).  The
\* first program of a contracting system and the second program of an
\* expanding system are infeasible.
C29_OutsideIsNotStrictlyInside ==
    /\ roa.pc \in {"milp1", "milp2"} =>
          /\ RoaProgram(roa.milp1, TRUE, FALSE)
          /\ RoaContracting => roa.milp1.status = "INFEASIBLE"
    /\ roa.pc = "milp2" =>
          /\ RoaProgram(roa.milp2, FALSE, FALSE)
          /\ RoaExpanding => roa.milp2.status = "INFEASIBLE"

\* A system with an expanding and a contracting mode: both programs have
\* solutions; in the second x_curr is on a face of the box, where it
\* satisfies every bound, and x_next is strictly inside.
C29_Witness ==
    /\ roa.pc = "milp2"
    /\ ~RoaContracting /\ ~RoaExpanding
    /\ roa.milp1.status = "OPTIMAL" /\ roa.milp2.status = "OPTIMAL"
    /\ RoaWithin(roa.milp2.x_curr) /\ RoaOnOrBeyond(roa.milp2.x_curr)
    /\ StrictlyInBox(roa.milp2.x_next, roa.dut.system.x_lo_all, roa.dut.system.x_up_all)
    /\ RoaOnOrBeyond(roa.milp1.x_next)
    /\ roa.milp1.objVal # 0 /\ roa.milp2.objVal # roa.milp1.objVal
=============================================================================
